---- MODULE Spec2Model ----
(***************************************************************************)
(* A model of the optimization pipeline of the GLB optimizer server:       *)
(* executePipeline (src/src/components/optimization-pipeline.ts) run once  *)
(* on an input file, an output path and an options object.                 *)
(*                                                                         *)
(* Each await of executePipeline is one action.  What the environment      *)
(* answers (the file system, the glTF reader and writer, a component)      *)
(* is chosen when the call is made.  Wall-clock values (Date.now, the      *)
(* duration of a step, processingTime) are left out: no branch of the      *)
(* code reads them.                                                        *)
(***************************************************************************)
EXTENDS Integers, Sequences, FiniteSets

\* Largest file size (in bytes) the model distinguishes.
MaxSize == 1

(***************************************************************************)
(* JavaScript values, as far as the code looks at them.                    *)
(***************************************************************************)
JSUndefined == [t |-> "undefined", v |-> ""]
JSBool(b) == [t |-> "boolean", v |-> IF b THEN "true" ELSE "false"]
JSString(s) == [t |-> "string", v |-> s]

\* ToBoolean, as applied by `!x` and `if (x)`.
JSTruthy(x) ==
    ~ \/ x.t \in {"undefined", "null"}
      \/ x.t = "boolean" /\ x.v = "false"
      \/ x.t = "number" /\ x.v \in {"0", "NaN"}
      \/ x.t = "string" /\ x.v = ""

\* x ?? d
Coalesce(x, d) == IF x.t \in {"undefined", "null"} THEN d ELSE x

(***************************************************************************)
(* The options object.  options[s] is the group of step s: absent, or an   *)
(* object with an `enabled` member.  The route hands JSON.parse's result   *)
(* to executePipeline unvalidated (src/src/routes/optimize.ts:179-193),    *)
(* so `enabled` is any JSON value; a string stands for the non-booleans.   *)
(***************************************************************************)
UserSteps == {"clean", "merge", "simplify", "quantize", "draco", "texture"}

Absent == [present |-> FALSE, enabled |-> JSUndefined]
Group(e) == [present |-> TRUE, enabled |-> e]

EnabledValues == {JSBool(TRUE), JSBool(FALSE), JSString("false")}

OptionGroups == {Absent} \cup {Group(e) : e \in EnabledValues}

\* options.<step>?.enabled
OptEnabled(opts, step) ==
    IF opts[step].present THEN opts[step].enabled ELSE JSUndefined

(***************************************************************************)
(* The input file: missing, empty, or of some size and parsing or not.     *)
(***************************************************************************)
InputFiles ==
    { f \in [exists : BOOLEAN, size : 0..MaxSize, parses : BOOLEAN] :
        /\ ~f.exists => f.size = 0
        /\ f.size = 0 => ~f.parses }

VARIABLES
    options,        \* the options argument
    inputFile,      \* the file at inputPath
    outputFile,     \* the file at outputPath: "absent", "written", "partial"
    outputDirMade,  \* whether the run created the output directory
    pc,             \* the await executePipeline is at
    idx,            \* position of the for-loop in OPTIMIZATION_ORDER (1-based)
    steps,          \* the local array `steps`
    running,        \* the step executeStep is running, or "none"
    started,        \* the steps executeStep was called for, in call order
    document,       \* "none" until io.read returned the document
    originalSize,   \* the local `originalSize`
    result,         \* the OptimizationResult returned, or NoResult
    thrown,         \* the error the promise rejected with, or NoError
    fault,          \* the call that failed, or "none"
    timedOut,       \* whether the request timeout has fired
    timedOutDuring, \* the step that was running when it fired, or "none"
    sinkEvents      \* the events the route's progress callback was called with

pipelineVars == <<options, inputFile, outputFile, outputDirMade, pc, idx, steps,
                  running, started, document, originalSize, result, thrown,
                  fault, timedOut, timedOutDuring, sinkEvents>>

(***************************************************************************)
(* utils/draco-singleton.ts: the module-level state and its callers.       *)
(***************************************************************************)
VARIABLES
    initPromise,    \* "null", "pending", "fulfilled", "rejected"
    decoderModule,  \* 0 for null, else the instance createDecoderModule made
    encoderModule,  \* 0 for null, else the instance createEncoderModule made
    decoderPromise, \* createDecoderModule(): "none", "pending", "resolved", "rejected"
    encoderPromise, \* createEncoderModule(): likewise
    decoderCreated, \* number of calls of draco3d.createDecoderModule
    encoderCreated, \* number of calls of draco3d.createEncoderModule
    callerPc,       \* per caller of getDracoModules: where it is
    received,       \* per caller: the pair getDracoModules returned
    calledUnsettled \* the callers that called before initPromise settled

dracoVars == <<initPromise, decoderModule, encoderModule, decoderPromise,
               encoderPromise, decoderCreated, encoderCreated, callerPc,
               received, calledUnsettled>>

(***************************************************************************)
(* components/texture-compressor.ts: one call of compressTextures.         *)
(***************************************************************************)
VARIABLES
    texOptions,     \* the options argument: mode, quality, slots
    textures,       \* document.getRoot().listTextures(), in order
    basisu,         \* KHR_texture_basisu on the document: used, required
    texPc,          \* the await compressTextures or compressWithToktx is at
    useToktx,       \* the local `useToktx`
    toProcess,      \* the local `texturesToProcess`, as indices of textures
    ti,             \* position of the for-loop in texturesToProcess
    details,        \* the local `details`
    tmpDirs,        \* the scratch directories that exist, by invocation
    toktxError,     \* what threw in the invocation in progress, or "none"
    lastExit,       \* how the last invocation of compressWithToktx ended
    rmFailed,       \* the scratch directories whose fs.rm rejected
    texStats,       \* the TextureStats returned, or NoTextureStats
    texThrown       \* the error compressTextures threw, or "none"

textureVars == <<texOptions, textures, basisu, texPc, useToktx, toProcess, ti,
                 details, tmpDirs, toktxError, lastExit, rmFailed, texStats,
                 texThrown>>

(***************************************************************************)
(* components/mesh-simplifier.ts: one call of simplifyMesh.                *)
(***************************************************************************)
VARIABLES
    simOptions,     \* the options argument: targetRatio, targetCount, error
    simDocument,    \* the document: its triangle count, whether it was welded
    simDocBefore,   \* the document as it was when simplifyMesh was called
    simPc,          \* the await simplifyMesh is at
    simRatio,       \* the local `targetRatio`, in hundredths
    simStats,       \* the SimplifyStats returned, or NoSimplifyStats
    simThrown       \* the OptimizationError thrown, or NoOptionsError

simplifyVars == <<simOptions, simDocument, simDocBefore, simPc, simRatio,
                  simStats, simThrown>>

(***************************************************************************)
(* components/draco-compressor.ts: one call of compressDraco.              *)
(***************************************************************************)
VARIABLES
    dracoOptions,   \* the options argument: compressionLevel, quantize*
    dracoDocument,  \* the document: geometry bytes, KHR_draco_mesh_compression
    dracoPc,        \* the await compressDraco is at
    dracoStats,     \* the DracoStats returned, or NoDracoStats
    dracoThrown     \* the OptimizationError thrown, or NoOptionsError

compressorVars == <<dracoOptions, dracoDocument, dracoPc, dracoStats,
                    dracoThrown>>

(***************************************************************************)
(* components/geometry-fixer.ts: one call of repairInput.                  *)
(***************************************************************************)
VARIABLES
    primitives,     \* the primitives of the document's meshes, in order
    orphans,        \* the empty accessors that only the root refers to
    repairPc,       \* "idle", then "returned"
    repairResult    \* the GeometryFixResult returned, or NoFixResult

fixerVars == <<primitives, orphans, repairPc, repairResult>>

(***************************************************************************)
(* utils/validate-options.ts: validateOptions(raw) and the run of the      *)
(* steps on what it returns (routes/progress.ts).                          *)
(***************************************************************************)
VARIABLES
    rawOptions,     \* the options parsed from the request
    sanitized,      \* validateOptions(raw).sanitized
    sanPc,          \* "idle", "sanitized", the step whose options are
                    \* being checked, "done" or "failed"
    sanFailed       \* the step that failed and the error it threw

sanitizerVars == <<rawOptions, sanitized, sanPc, sanFailed>>

(***************************************************************************)
(* index.ts and utils/storage.ts: the files under ./temp and the periodic  *)
(* cleanup.  Time is counted in cleanup intervals (10 minutes).            *)
(***************************************************************************)
VARIABLES
    clock,          \* Date.now(), in intervals
    tempFiles,      \* the files under ./temp: directory, name, mtime
    reqPc,          \* per request of POST /api/optimize: where it is
    reqExt          \* per request: the extension of the uploaded file

cleanupVars == <<clock, tempFiles, reqPc, reqExt>>

(***************************************************************************)
(* middleware/auth.ts: one request passing through authMiddleware.         *)
(***************************************************************************)
VARIABLES
    apiKeyEnv,      \* process.env.API_KEY
    authRequest,    \* the request: route, Authorization, x-api-key, api_key
    authPc          \* "received", then "401" or "handler"

authVars == <<apiKeyEnv, authRequest, authPc>>

serverVars == <<sanitizerVars, cleanupVars, authVars>>

\* The variables of the components that are modelled on their own.
componentVars ==
    <<dracoVars, textureVars, simplifyVars, compressorVars, fixerVars,
      serverVars>>

\* What an action of one component leaves alone.
besideDraco ==
    <<pipelineVars, textureVars, simplifyVars, compressorVars, fixerVars,
      serverVars>>

besideTexture ==
    <<pipelineVars, dracoVars, simplifyVars, compressorVars, fixerVars,
      serverVars>>

besideSimplify ==
    <<pipelineVars, dracoVars, textureVars, compressorVars, fixerVars,
      serverVars>>

besideCompressor ==
    <<pipelineVars, dracoVars, textureVars, simplifyVars, fixerVars,
      serverVars>>

besideFixer ==
    <<pipelineVars, dracoVars, textureVars, simplifyVars, compressorVars,
      serverVars>>

libraryVars ==
    <<dracoVars, textureVars, simplifyVars, compressorVars, fixerVars>>

besideSanitizer == <<pipelineVars, libraryVars, cleanupVars, authVars>>

besideCleanup == <<pipelineVars, libraryVars, sanitizerVars, authVars>>

besideAuth == <<pipelineVars, libraryVars, sanitizerVars, cleanupVars>>

\* The number of concurrent callers of getDracoModules.
MaxCallers == 3

Callers == 1..MaxCallers

NoPair == [decoder |-> 0, encoder |-> 0]

\* let decoderModule = null; let encoderModule = null; let initPromise = null;
DracoInit ==
    /\ initPromise = "null"
    /\ decoderModule = 0
    /\ encoderModule = 0
    /\ decoderPromise = "none"
    /\ encoderPromise = "none"
    /\ decoderCreated = 0
    /\ encoderCreated = 0
    /\ callerPc = [c \in Callers |-> "idle"]
    /\ received = [c \in Callers |-> NoPair]
    /\ calledUnsettled = {}

\* An optional numeric option: absent, or a number held in hundredths
\* (1.5 is 150).
NumUndefined == [def |-> FALSE, x100 |-> 0]

Num(x100) == [def |-> TRUE, x100 |-> x100]

\* Number.isInteger
IsInteger(n) == n.x100 % 100 = 0

NoTextureStats == [texturesProcessed |-> 0, details |-> <<>>, method |-> "none"]

\* compressTextures not called, on a document without textures.
TextureIdle ==
    /\ texOptions = [mode |-> "undefined", quality |-> NumUndefined, slots |-> <<>>]
    /\ textures = <<>>
    /\ basisu = [used |-> FALSE, required |-> FALSE]
    /\ texPc = "idle"
    /\ useToktx = FALSE
    /\ toProcess = <<>>
    /\ ti = 0
    /\ details = <<>>
    /\ tmpDirs = {}
    /\ toktxError = "none"
    /\ lastExit = "none"
    /\ rmFailed = {}
    /\ texStats = NoTextureStats
    /\ texThrown = "none"

\* new OptimizationError(code, message, {field, expected, received})
OptimizationError(code, field, expected, given) ==
    [code |-> code, field |-> field, expected |-> expected, received |-> given]

\* String(value) of a number; and a fixed text.
StringOf(n) == [text |-> "String(number)", value |-> n]

Text(str) == [text |-> str, value |-> NumUndefined]

NoOptionsError == OptimizationError("none", "none", "none", Text("none"))

NoSimplifyStats == [originalTriangles |-> 0, simplifiedTriangles |-> 0,
                    meshesProcessed |-> 0]

\* simplifyMesh not called, on a document without triangles.
SimplifyIdle ==
    /\ simOptions = [targetRatio |-> NumUndefined, targetCount |-> NumUndefined,
                     error |-> NumUndefined]
    /\ simDocument = [triangles |-> 0, welded |-> FALSE]
    /\ simDocBefore = [triangles |-> 0, welded |-> FALSE]
    /\ simPc = "idle"
    /\ simRatio = 0
    /\ simStats = NoSimplifyStats
    /\ simThrown = NoOptionsError

NoDracoStats == [meshesCompressed |-> 0, originalSize |-> 0, compressedSize |-> 0]

\* compressDraco not called, on a document without geometry.
CompressorIdle ==
    /\ dracoOptions = [compressionLevel |-> NumUndefined,
                       quantizePosition |-> NumUndefined,
                       quantizeNormal |-> NumUndefined,
                       quantizeTexcoord |-> NumUndefined]
    /\ dracoDocument = [geometrySize |-> 0, dracoRequired |-> FALSE]
    /\ dracoPc = "idle"
    /\ dracoStats = NoDracoStats
    /\ dracoThrown = NoOptionsError

NoFixResult == [invalidVerticesFixed |-> 0, normalsRegenerated |-> 0,
                tangentsRemoved |-> 0, emptyAccessorsRemoved |-> 0,
                totalPrimitivesProcessed |-> 0]

\* repairInput not called, on a document without meshes.
FixerIdle ==
    /\ primitives = <<>>
    /\ orphans = 0
    /\ repairPc = "idle"
    /\ repairResult = NoFixResult

\* The option groups of a request, as validateOptions reads them.
NoRawOptions ==
    [simplify |-> [enabled |-> FALSE, targetRatio |-> NumUndefined,
                   targetCount |-> NumUndefined, error |-> NumUndefined],
     draco |-> [enabled |-> FALSE, compressionLevel |-> NumUndefined,
                quantizePosition |-> NumUndefined,
                quantizeNormal |-> NumUndefined,
                quantizeTexcoord |-> NumUndefined],
     texture |-> [enabled |-> FALSE, mode |-> "undefined",
                  quality |-> NumUndefined]]

NoStepFailure == [step |-> "none", code |-> "none", field |-> "none"]

\* validateOptions not called.
SanitizerIdle ==
    /\ rawOptions = NoRawOptions
    /\ sanitized = NoRawOptions
    /\ sanPc = "idle"
    /\ sanFailed = NoStepFailure

MaxRequests == 1

Requests == 1..MaxRequests

\* The server has just started: ./temp is empty.
CleanupIdle ==
    /\ clock = 0
    /\ tempFiles = {}
    /\ reqPc = [q \in Requests |-> "none"]
    /\ reqExt = [q \in Requests |-> "none"]

\* A header or query value: undefined, a string, or an array of strings.
Undefined == [t |-> "undefined", v |-> ""]

Str(v) == [t |-> "string", v |-> v]

Arr(v) == [t |-> "array", v |-> v]

\* The Authorization header is held as authHeader.split(' ') gives it;
\* <<>> is no header.
NoAuthRequest ==
    [route |-> "none", authorization |-> <<>>, xApiKey |-> Undefined,
     apiKeyQuery |-> Undefined]

\* No request has come.
AuthIdle ==
    /\ apiKeyEnv = [set |-> FALSE, v |-> ""]
    /\ authRequest = NoAuthRequest
    /\ authPc = "idle"

ServerIdle ==
    /\ SanitizerIdle
    /\ CleanupIdle
    /\ AuthIdle

\* The library components at rest.
LibraryIdle ==
    /\ DracoInit
    /\ TextureIdle
    /\ SimplifyIdle
    /\ CompressorIdle
    /\ FixerIdle

\* The components at rest, while executePipeline's own steps are explored.
ComponentsInit ==
    /\ DracoInit
    /\ TextureIdle
    /\ SimplifyIdle
    /\ CompressorIdle
    /\ FixerIdle
    /\ ServerIdle

vars == <<pipelineVars, componentVars>>

(***************************************************************************)
(* components/mesh-simplifier.ts: validateOptions                          *)
(***************************************************************************)

\* SIMPLIFY_RATIO_RANGE.max, in hundredths.
SIMPLIFY_RATIO_MAX == 100

\* A check that never finds both.
BothSpecified_never(o) == FALSE

\* options.targetRatio !== undefined && options.targetCount !== undefined
BothSpecified(o) == o.targetRatio.def /\ o.targetCount.def

\* options.targetRatio <= 0 || options.targetRatio > SIMPLIFY_RATIO_RANGE.max
TargetRatioInvalid(o) ==
    o.targetRatio.x100 <= 0 \/ o.targetRatio.x100 > SIMPLIFY_RATIO_MAX

\* A check of the sign alone.
TargetCountInvalid_signOnly(o) == o.targetCount.x100 <= 0

\* options.targetCount <= 0 || !Number.isInteger(options.targetCount)
TargetCountInvalid(o) == o.targetCount.x100 <= 0 \/ ~IsInteger(o.targetCount)

\* options.error < 0 || options.error > 1
ErrorInvalid(o) == o.error.x100 < 0 \/ o.error.x100 > 100

\* function validateOptions(options): the error it throws, or NoOptionsError.
validateSimplifyOptions(o) ==
    IF BothSpecified(o)
      THEN OptimizationError("INVALID_OPTIONS", "targetRatio/targetCount",
                             "Only one of targetRatio or targetCount",
                             Text("Both specified"))
    ELSE IF o.targetRatio.def /\ TargetRatioInvalid(o)
      THEN OptimizationError("INVALID_OPTIONS", "targetRatio", "(0, 1]",
                             StringOf(o.targetRatio))
    ELSE IF o.targetCount.def /\ TargetCountInvalid(o)
      THEN OptimizationError("INVALID_OPTIONS", "targetCount",
                             "Positive integer", StringOf(o.targetCount))
    ELSE IF o.error.def /\ ErrorInvalid(o)
      THEN OptimizationError("INVALID_OPTIONS", "error", "[0, 1]",
                             StringOf(o.error))
      ELSE NoOptionsError

\* The values tried for each option: absent, below, at and above each limit.
TargetRatioInputs == {NumUndefined, Num(-50), Num(0), Num(50), Num(100), Num(150)}

TargetCountInputs == {NumUndefined, Num(-1000), Num(0), Num(100), Num(550)}

ErrorInputs == {NumUndefined, Num(-1), Num(0), Num(100), Num(101)}

SimplifyOptionInputs ==
    [targetRatio : TargetRatioInputs, targetCount : TargetCountInputs,
     error : ErrorInputs]

(***************************************************************************)
(* optimization-pipeline.ts                                                *)
(***************************************************************************)
\* OPTIMIZATION_ORDER with quantize listed before simplify.
OPTIMIZATION_ORDER_swapped ==
    <<"repair-input", "clean", "merge", "quantize", "simplify", "draco",
      "texture", "repair-output">>

OPTIMIZATION_ORDER ==
    <<"repair-input", "clean", "merge", "simplify", "quantize", "draco",
      "texture", "repair-output">>

isStepEnabled(step, opts) ==
    IF step \in {"repair-input", "repair-output"}
    THEN JSBool(TRUE)
    ELSE IF step \in UserSteps
    THEN Coalesce(OptEnabled(opts, step), JSBool(FALSE))
    ELSE JSBool(FALSE)

\* SkipStep with a cancellation check at the step boundary.
SkipStep_whenTimedOut(step, opts) ==
    timedOut \/ ~JSTruthy(isStepEnabled(step, opts))

\* if (!isStepEnabled(step, options)) continue;
SkipStep(step, opts) == ~JSTruthy(isStepEnabled(step, opts))

\* What a component returns, spread into `stats`.
ComponentStats(step) == [component |-> step]

NoStats == [component |-> "{}"]

createSuccessStepResult(step, stats) ==
    [step |-> step, success |-> TRUE, stats |-> stats, error |-> "undefined"]

createFailedStepResult(step, error) ==
    [step |-> step, success |-> FALSE, stats |-> NoStats, error |-> error]

\* An error without code or details, as a library or `new Error(...)` throws.
ComponentError ==
    OptimizationError("undefined", "undefined", "undefined", Text("undefined"))

\* error.message, for the errors validateOptions of the simplifier throws.
ErrorMessage(err) ==
    CASE err.field = "targetRatio/targetCount" ->
           "Cannot specify both targetRatio and targetCount. Use one or the other."
      [] err.field = "targetRatio" -> "Target ratio must be in range (0, 1]"
      [] err.field = "targetCount" -> "Target count must be a positive integer"
      [] err.field = "error" -> "Error threshold must be in range [0, 1]"
      [] OTHER -> "component error"

\* What the component of a step may do: return (NoOptionsError), throw an
\* error of its own, or, for simplify, reject the options it was given.
ComponentOutcomes(step) ==
    {NoOptionsError, ComponentError}
    \cup (IF step = "simplify"
            THEN {validateSimplifyOptions(o) : o \in SimplifyOptionInputs}
            ELSE {})

\* catch (error) { errorMessage = error instanceof Error ? error.message : ...;
\*                 return createFailedStepResult(step, duration, errorMessage); }
FailureOf(step, err) == createFailedStepResult(step, ErrorMessage(err))

\* executeStep: every throw of the switch is caught and becomes a failed
\* result.  err is what the component threw, NoOptionsError if it returned.
executeStep(step, opts, err) ==
    IF step \in {"simplify", "draco", "texture"} /\ ~opts[step].present
    THEN createFailedStepResult(step, "options not provided")
    ELSE IF err = NoOptionsError
    THEN createSuccessStepResult(step, ComponentStats(step))
    ELSE FailureOf(step, err)

\* StopOnFailure that never stops.
StopOnFailure_never(stepResult) == FALSE

\* StopOnFailure that lets a failed repair step pass.
StopOnFailure_userStepsOnly(stepResult) ==
    ~stepResult.success /\ stepResult.step \notin {"repair-input", "repair-output"}

\* if (!stepResult.success) return ...
StopOnFailure(stepResult) == ~stepResult.success

\* fs.promises.stat(filePath).size, or 0 when stat throws.
getFileSize(file) == IF file.exists THEN file.size ELSE 0

\* createOptimizationResult that drops the step list.
createOptimizationResult_noSteps(success, origSize, optSize, stepList) ==
    [taskId |-> "uuid",
     success |-> success,
     downloadUrl |-> "/api/download/uuid",
     originalSize |-> origSize,
     optimizedSize |-> optSize,
     compressionRatio |-> IF origSize > 0 THEN <<optSize, origSize>> ELSE <<1, 1>>,
     steps |-> <<>>]

createOptimizationResult(success, origSize, optSize, stepList) ==
    [taskId |-> "uuid",
     success |-> success,
     downloadUrl |-> "/api/download/uuid",
     originalSize |-> origSize,
     optimizedSize |-> optSize,
     compressionRatio |-> IF origSize > 0 THEN <<optSize, origSize>> ELSE <<1, 1>>,
     steps |-> stepList]

PipelineError(code, step) == [name |-> "PipelineError", code |-> code, step |-> step]

\* An error that is not a PipelineError propagates as it was thrown.
RawError == [name |-> "Error", code |-> "undefined", step |-> "undefined"]

\* The read error raised with the code of a failed optimization.
ReadFailedError_wrongCode == PipelineError("OPTIMIZATION_FAILED", "undefined")

\* The write error raised without its step.
WriteFailedError_noStep == PipelineError("OPTIMIZATION_FAILED", "undefined")

InputNotFoundError == PipelineError("INVALID_FILE", "undefined")
ReadFailedError == PipelineError("INVALID_FILE", "undefined")
WriteFailedError == PipelineError("OPTIMIZATION_FAILED", "write")

NoResult == [taskId |-> "none"]
NoError == [name |-> "none", code |-> "none", step |-> "none"]

NumSteps == Len(OPTIMIZATION_ORDER)

(***************************************************************************)
(* middleware/error-handler.ts: what the routes' next(error) leads to.     *)
(***************************************************************************)

\* const ERROR_STATUS_CODES, and getStatusCode: 500 for a code not in it.
ERROR_STATUS_CODES ==
    [INVALID_FILE |-> 400, INVALID_OPTIONS |-> 400, FILE_TOO_LARGE |-> 413,
     TASK_NOT_FOUND |-> 404, OPTIMIZATION_FAILED |-> 500,
     INTERNAL_ERROR |-> 500]

getStatusCode(errorCode) ==
    IF errorCode \in DOMAIN ERROR_STATUS_CODES
      THEN ERROR_STATUS_CODES[errorCode] ELSE 500

\* function errorHandler(err, req, res, _next): the status and the error
\* code of the response, for the errors a pipeline run can end in.  Only an
\* instance of OptimizationError is answered with its own code.
errorHandler(err) ==
    IF err.name = "OptimizationError"
      THEN [status |-> getStatusCode(err.code), code |-> err.code]
      ELSE [status |-> 500, code |-> "INTERNAL_ERROR"]

(***************************************************************************)
(* Initial state: executePipeline has not been called.                     *)
(***************************************************************************)
Init ==
    /\ options \in [UserSteps -> OptionGroups]
    /\ inputFile \in InputFiles
    /\ outputFile = "absent"
    /\ outputDirMade = FALSE
    /\ pc = "Initial"
    /\ idx = 0
    /\ steps = <<>>
    /\ running = "none"
    /\ started = <<>>
    /\ document = "none"
    /\ originalSize = 0
    /\ result = NoResult
    /\ thrown = NoError
    /\ fault = "none"
    /\ timedOut = FALSE
    /\ timedOutDuring = "none"
    /\ sinkEvents = <<>>
    /\ ComponentsInit

\* const steps = []; const originalSize = await getFileSize(inputPath);
Call ==
    /\ pc = "Initial"
    /\ pc' = "getFileSize"
    /\ steps' = <<>>
    /\ UNCHANGED <<options, inputFile, outputFile, outputDirMade, idx, running,
                   started, document, originalSize, result, thrown, fault,
                   timedOut, timedOutDuring,
                   sinkEvents, componentVars>>

\* if (originalSize === 0) throw new PipelineError(INVALID_FILE, ...)
GetOriginalSize ==
    /\ pc = "getFileSize"
    /\ originalSize' = getFileSize(inputFile)
    /\ IF originalSize' = 0
       THEN /\ thrown' = InputNotFoundError
            /\ fault' = "getFileSize"
            /\ pc' = "Done"
       ELSE /\ pc' = "getDracoModules"
            /\ UNCHANGED <<thrown, fault>>
    /\ UNCHANGED <<options, inputFile, outputFile, outputDirMade, idx, steps,
                   running, started, document, result, timedOut, timedOutDuring,
                   sinkEvents, componentVars>>

\* registerDependencies(await getDracoModules()): a rejection propagates.
GetDraco ==
    /\ pc = "getDracoModules"
    /\ \E ok \in BOOLEAN :
         IF ok
         THEN /\ pc' = "io.read"
              /\ UNCHANGED <<thrown, fault>>
         ELSE /\ thrown' = RawError
              /\ fault' = "getDracoModules"
              /\ pc' = "Done"
    /\ UNCHANGED <<options, inputFile, outputFile, outputDirMade, idx, steps,
                   running, started, document, originalSize, result, timedOut, timedOutDuring,
                   sinkEvents, componentVars>>

\* document = await io.read(inputPath), or PipelineError(INVALID_FILE, ...)
Read ==
    /\ pc = "io.read"
    /\ IF inputFile.parses
       THEN /\ document' = "doc"
            /\ idx' = 1
            /\ pc' = "loop"
            /\ UNCHANGED <<thrown, fault>>
       ELSE /\ thrown' = ReadFailedError
            /\ fault' = "io.read"
            /\ pc' = "Done"
            /\ UNCHANGED <<document, idx>>
    /\ UNCHANGED <<options, inputFile, outputFile, outputDirMade, steps,
                   running, started, originalSize, result, timedOut, timedOutDuring,
                   sinkEvents, componentVars>>

\* for (const step of OPTIMIZATION_ORDER) { if (!isStepEnabled(...)) continue;
LoopSkip ==
    /\ pc = "loop"
    /\ idx <= NumSteps
    /\ SkipStep(OPTIMIZATION_ORDER[idx], options)
    /\ idx' = idx + 1
    /\ UNCHANGED <<options, inputFile, outputFile, outputDirMade, pc, steps,
                   running, started, document, originalSize, result, thrown,
                   fault, timedOut, timedOutDuring,
                   sinkEvents, componentVars>>

\* executeStep(step, document, options) is called.
StepStart ==
    /\ pc = "loop"
    /\ idx <= NumSteps
    /\ ~SkipStep(OPTIMIZATION_ORDER[idx], options)
    /\ running' = OPTIMIZATION_ORDER[idx]
    /\ started' = Append(started, OPTIMIZATION_ORDER[idx])
    /\ pc' = "executeStep"
    /\ UNCHANGED <<options, inputFile, outputFile, outputDirMade, idx, steps,
                   document, originalSize, result, thrown, fault, timedOut, timedOutDuring,
                   sinkEvents, componentVars>>

\* stepResult = await executeStep(...); steps.push(stepResult);
\* if (!stepResult.success) return createOptimizationResult({success: false,
\*   optimizedSize: originalSize, steps});
StepReturn ==
    /\ pc = "executeStep"
    /\ \E err \in ComponentOutcomes(running) :
         LET stepResult == executeStep(running, options, err) IN
         /\ steps' = Append(steps, stepResult)
         /\ IF StopOnFailure(stepResult)
            THEN /\ result' = createOptimizationResult(FALSE, originalSize,
                                                       originalSize, steps')
                 /\ fault' = "executeStep"
                 /\ pc' = "Done"
                 /\ UNCHANGED idx
            ELSE /\ idx' = idx + 1
                 /\ pc' = "loop"
                 /\ UNCHANGED <<result, fault>>
    /\ running' = "none"
    /\ UNCHANGED <<options, inputFile, outputFile, outputDirMade, started,
                   document, originalSize, thrown, timedOut, timedOutDuring,
                   sinkEvents, componentVars>>

\* LoopExit that leaves the loop before its end.
LoopExit_early ==
    /\ pc = "loop"
    /\ pc' = "mkdir"
    /\ UNCHANGED <<options, inputFile, outputFile, outputDirMade, idx, steps,
                   running, started, document, originalSize, result, thrown,
                   fault, timedOut, timedOutDuring,
                   sinkEvents, componentVars>>

\* The loop has gone through OPTIMIZATION_ORDER.
LoopExit ==
    /\ pc = "loop"
    /\ idx > NumSteps
    /\ pc' = "mkdir"
    /\ UNCHANGED <<options, inputFile, outputFile, outputDirMade, idx, steps,
                   running, started, document, originalSize, result, thrown,
                   fault, timedOut, timedOutDuring,
                   sinkEvents, componentVars>>

\* if (!fs.existsSync(outputDir)) fs.mkdirSync(outputDir, {recursive: true});
\* mkdirSync is outside every try: its error propagates as thrown.
EnsureOutputDir ==
    /\ pc = "mkdir"
    /\ \E dirExists \in BOOLEAN, mkdirOk \in BOOLEAN :
         IF dirExists
         THEN /\ pc' = "io.write"
              /\ UNCHANGED <<outputDirMade, thrown, fault>>
         ELSE IF mkdirOk
         THEN /\ outputDirMade' = TRUE
              /\ pc' = "io.write"
              /\ UNCHANGED <<thrown, fault>>
         ELSE /\ thrown' = RawError
              /\ fault' = "mkdirSync"
              /\ pc' = "Done"
              /\ UNCHANGED outputDirMade
    /\ UNCHANGED <<options, inputFile, outputFile, idx, steps, running,
                   started, document, originalSize, result, timedOut, timedOutDuring,
                   sinkEvents, componentVars>>

\* await io.write(outputPath, document), or PipelineError(OPTIMIZATION_FAILED,
\* ..., 'write', ...).  A write that fails may leave a partial file.
Write ==
    /\ pc = "io.write"
    /\ \E ok \in BOOLEAN, left \in {outputFile, "partial"} :
         IF ok
         THEN /\ outputFile' = "written"
              /\ pc' = "getOptimizedSize"
              /\ UNCHANGED <<thrown, fault>>
         ELSE /\ outputFile' = left
              /\ thrown' = WriteFailedError
              /\ fault' = "io.write"
              /\ pc' = "Done"
    /\ UNCHANGED <<options, inputFile, outputDirMade, idx, steps, running,
                   started, document, originalSize, result, timedOut, timedOutDuring,
                   sinkEvents, componentVars>>

\* optimizedSize = await getFileSize(outputPath); return
\* createOptimizationResult({success: true, ...})
Return ==
    /\ pc = "getOptimizedSize"
    /\ \E optimizedSize \in 0..MaxSize :
         result' = createOptimizationResult(TRUE, originalSize, optimizedSize,
                                            steps)
    /\ pc' = "Done"
    /\ UNCHANGED <<options, inputFile, outputFile, outputDirMade, idx, steps,
                   running, started, document, originalSize, thrown, fault,
                   timedOut, timedOutDuring,
                   sinkEvents, componentVars>>

(***************************************************************************)
(* The server's request timeout (res.setTimeout, 5 minutes): the only      *)
(* request the code has for a run to end.  Its handler answers 408 when    *)
(* no header has been sent; it holds no reference to the pipeline.         *)
(***************************************************************************)
RequestTimeout ==
    /\ ~timedOut
    /\ pc # "Done"
    /\ timedOut' = TRUE
    /\ timedOutDuring' = running
    /\ UNCHANGED <<options, inputFile, outputFile, outputDirMade, pc, idx,
                   steps, running, started, document, originalSize, result,
                   thrown, fault, sinkEvents, componentVars>>

Next ==
    \/ Call
    \/ GetOriginalSize
    \/ GetDraco
    \/ Read
    \/ LoopSkip
    \/ StepStart
    \/ StepReturn
    \/ LoopExit
    \/ EnsureOutputDir
    \/ Write
    \/ Return

Spec == Init /\ [][Next]_vars

\* A run during which the request timeout may fire.
NextTimeout == Next \/ RequestTimeout

SpecTimeout == Init /\ [][NextTimeout]_vars

\* executePipeline not called, while a component is explored on its own.
PipelineIdle ==
    /\ options = [s \in UserSteps |-> Absent]
    /\ inputFile = [exists |-> FALSE, size |-> 0, parses |-> FALSE]
    /\ outputFile = "absent"
    /\ outputDirMade = FALSE
    /\ pc = "Initial"
    /\ idx = 0
    /\ steps = <<>>
    /\ running = "none"
    /\ started = <<>>
    /\ document = "none"
    /\ originalSize = 0
    /\ result = NoResult
    /\ thrown = NoError
    /\ fault = "none"
    /\ timedOut = FALSE
    /\ timedOutDuring = "none"
    /\ sinkEvents = <<>>

(***************************************************************************)
(* utils/draco-singleton.ts                                                *)
(*                                                                         *)
(* JavaScript runs each piece of code between two awaits without           *)
(* interruption: one action is one such piece.  The two draco3d factories  *)
(* settle in any order, each resolving or rejecting.                       *)
(***************************************************************************)

\* A guard on the module instead of on the promise: true until init ends.
InitNeeded_untilModuleSet == decoderModule = 0

\* if (!initPromise)
InitNeeded == initPromise = "null"

\* getDracoModules() up to its await: init() runs to `return initPromise`,
\* and on the first call the inner async function runs up to its await,
\* having called both factories.
CallGetDracoModules(c) ==
    /\ callerPc[c] = "idle"
    /\ callerPc' = [callerPc EXCEPT ![c] = "await init"]
    /\ IF InitNeeded
          THEN /\ initPromise' = "pending"
               /\ decoderPromise' = "pending"
               /\ encoderPromise' = "pending"
               /\ decoderCreated' = decoderCreated + 1
               /\ encoderCreated' = encoderCreated + 1
          ELSE UNCHANGED <<initPromise, decoderPromise, encoderPromise,
                           decoderCreated, encoderCreated>>
    /\ calledUnsettled' =
          IF initPromise \in {"null", "pending"}
            THEN calledUnsettled \cup {c} ELSE calledUnsettled
    /\ UNCHANGED <<decoderModule, encoderModule, received, besideDraco>>

\* draco3d.createDecoderModule() settles.
DecoderSettles ==
    /\ decoderPromise = "pending"
    /\ \E ok \in BOOLEAN :
          decoderPromise' = IF ok THEN "resolved" ELSE "rejected"
    /\ UNCHANGED <<initPromise, decoderModule, encoderModule, encoderPromise,
                   decoderCreated, encoderCreated, callerPc, received,
                   calledUnsettled, besideDraco>>

\* draco3d.createEncoderModule() settles.
EncoderSettles ==
    /\ encoderPromise = "pending"
    /\ \E ok \in BOOLEAN :
          encoderPromise' = IF ok THEN "resolved" ELSE "rejected"
    /\ UNCHANGED <<initPromise, decoderModule, encoderModule, decoderPromise,
                   decoderCreated, encoderCreated, callerPc, received,
                   calledUnsettled, besideDraco>>

\* Promise.all resolved: [decoderModule, encoderModule] = ...; the inner
\* function returns and initPromise is fulfilled.
InitFulfils ==
    /\ initPromise = "pending"
    /\ decoderPromise = "resolved"
    /\ encoderPromise = "resolved"
    /\ decoderModule' = decoderCreated
    /\ encoderModule' = encoderCreated
    /\ initPromise' = "fulfilled"
    /\ UNCHANGED <<decoderPromise, encoderPromise, decoderCreated,
                   encoderCreated, callerPc, received, calledUnsettled,
                   besideDraco>>

\* Promise.all rejected, as soon as one factory rejected: the await throws,
\* nothing is assigned, and initPromise is rejected (and stays assigned).
InitRejects ==
    /\ initPromise = "pending"
    /\ "rejected" \in {decoderPromise, encoderPromise}
    /\ initPromise' = "rejected"
    /\ UNCHANGED <<decoderModule, encoderModule, decoderPromise,
                   encoderPromise, decoderCreated, encoderCreated, callerPc,
                   received, calledUnsettled, besideDraco>>

\* await init() resumes: return {decoder: decoderModule!, encoder: encoderModule!}
GetDracoModulesReturns(c) ==
    /\ callerPc[c] = "await init"
    /\ initPromise = "fulfilled"
    /\ callerPc' = [callerPc EXCEPT ![c] = "returned"]
    /\ received' = [received EXCEPT
                      ![c] = [decoder |-> decoderModule, encoder |-> encoderModule]]
    /\ UNCHANGED <<initPromise, decoderModule, encoderModule, decoderPromise,
                   encoderPromise, decoderCreated, encoderCreated,
                   calledUnsettled, besideDraco>>

\* await init() throws: getDracoModules rejects.
GetDracoModulesThrows(c) ==
    /\ callerPc[c] = "await init"
    /\ initPromise = "rejected"
    /\ callerPc' = [callerPc EXCEPT ![c] = "thrown"]
    /\ UNCHANGED <<initPromise, decoderModule, encoderModule, decoderPromise,
                   encoderPromise, decoderCreated, encoderCreated, received,
                   calledUnsettled, besideDraco>>

InitDraco ==
    /\ PipelineIdle
    /\ ServerIdle
    /\ DracoInit
    /\ TextureIdle
    /\ SimplifyIdle
    /\ CompressorIdle
    /\ FixerIdle

NextDraco ==
    \/ \E c \in Callers : CallGetDracoModules(c)
    \/ DecoderSettles
    \/ EncoderSettles
    \/ InitFulfils
    \/ InitRejects
    \/ \E c \in Callers : GetDracoModulesReturns(c)
    \/ \E c \in Callers : GetDracoModulesThrows(c)

SpecDraco == InitDraco /\ [][NextDraco]_vars

(***************************************************************************)
(* components/texture-compressor.ts                                        *)
(***************************************************************************)

\* The most textures a document holds.
MaxTextures == 2

TEXTURE_MODES == {"ETC1S", "UASTC"}

\* QUALITY_RANGES, in hundredths.
QualityMin(mode) == IF mode = "ETC1S" THEN 100 ELSE 0

QualityMax(mode) == IF mode = "ETC1S" THEN 25500 ELSE 400

\* function validateOptions(options): the error it throws, or "none".
validateTextureOptions(o) ==
    IF o.mode # "undefined" /\ o.mode \notin TEXTURE_MODES
      THEN [code |-> "INVALID_OPTIONS", field |-> "mode"]
    ELSE IF o.quality.def
      THEN LET mode == IF o.mode = "undefined" THEN "ETC1S" ELSE o.mode
           IN  IF ~IsInteger(o.quality)
                    \/ o.quality.x100 < QualityMin(mode)
                    \/ o.quality.x100 > QualityMax(mode)
                 THEN [code |-> "INVALID_OPTIONS", field |-> "quality"]
                 ELSE [code |-> "none", field |-> "none"]
      ELSE [code |-> "none", field |-> "none"]

\* The slot filters tried: none, and one slot.
SlotFilters == {<<>>, <<"baseColorTexture">>, <<"normalTexture">>}

\* A texture: whether getImage() returns bytes, its MIME type, and the slot
\* by which a material refers to it ("none": no material does).
Textures ==
    [hasImage : BOOLEAN,
     mime : {"image/png", "image/jpeg", "image/ktx2"},
     slot : {"baseColorTexture", "none"}]

TextureLists == UNION {[1..n -> Textures] : n \in 0..MaxTextures}

TextureOptionInputs ==
    {[mode |-> "undefined", quality |-> NumUndefined, slots |-> sl] :
        sl \in SlotFilters}
    \cup {[mode |-> "UASTC", quality |-> Num(200), slots |-> <<>>],
          [mode |-> "PVRTC", quality |-> NumUndefined, slots |-> <<>>],
          [mode |-> "ETC1S", quality |-> Num(0), slots |-> <<>>],
          [mode |-> "UASTC", quality |-> Num(500), slots |-> <<>>],
          [mode |-> "undefined", quality |-> Num(150), slots |-> <<>>]}

Range(seq) == {seq[i] : i \in DOMAIN seq}

\* function getTexturesToProcess(document, slots)
getTexturesToProcess(texs, slots) ==
    LET all == [i \in 1..Len(texs) |-> i]
        InSlot(i) == texs[i].slot \in Range(slots)
    IN  IF Len(slots) = 0 THEN all ELSE SelectSeq(all, InSlot)

ToktxPcs == {"writeFile", "exec", "readFile", "rm"}

\* A document as io.read hands it over: a KTX2 texture comes with its
\* extension declared.
InitTexture ==
    /\ PipelineIdle
    /\ ServerIdle
    /\ DracoInit
    /\ SimplifyIdle
    /\ CompressorIdle
    /\ FixerIdle
    /\ texOptions \in TextureOptionInputs
    /\ textures \in TextureLists
    /\ basisu = IF \E i \in DOMAIN textures : textures[i].mime = "image/ktx2"
                  THEN [used |-> TRUE, required |-> TRUE]
                  ELSE [used |-> FALSE, required |-> FALSE]
    /\ texPc = "idle"
    /\ useToktx = FALSE
    /\ toProcess = <<>>
    /\ ti = 0
    /\ details = <<>>
    /\ tmpDirs = {}
    /\ toktxError = "none"
    /\ lastExit = "none"
    /\ rmFailed = {}
    /\ texStats = NoTextureStats
    /\ texThrown = "none"

\* compressTextures up to `await isToktxAvailable()`, or to its return.
CompressTextures ==
    /\ texPc = "idle"
    /\ LET err == validateTextureOptions(texOptions)
           list == getTexturesToProcess(textures, texOptions.slots)
       IN  IF err.code # "none"
             THEN /\ texThrown' = err.code
                  /\ texPc' = "thrown"
                  /\ UNCHANGED <<toProcess, texStats>>
           ELSE IF Len(list) = 0
             THEN /\ texStats' = [texturesProcessed |-> 0, details |-> <<>>,
                                  method |-> "undefined"]
                  /\ texPc' = "returned"
                  /\ UNCHANGED <<toProcess, texThrown>>
             ELSE /\ toProcess' = list
                  /\ texPc' = "isToktxAvailable"
                  /\ UNCHANGED <<texStats, texThrown>>
    /\ UNCHANGED <<texOptions, textures, basisu, useToktx, ti, details, tmpDirs,
                   toktxError, lastExit, rmFailed, besideTexture>>

\* The extension created, and left optional.
RegisterBasisu_notRequired(ext) == [used |-> TRUE, required |-> ext.required]

\* document.createExtension(KHRTextureBasisu).setRequired(true)
RegisterBasisu(ext) == [used |-> TRUE, required |-> TRUE]

\* const useToktx = await isToktxAvailable();
\* if (useToktx) document.createExtension(KHRTextureBasisu).setRequired(true);
IsToktxAvailable ==
    /\ texPc = "isToktxAvailable"
    /\ \E available \in BOOLEAN :
          /\ useToktx' = available
          /\ basisu' = IF available THEN RegisterBasisu(basisu) ELSE basisu
    /\ ti' = 1
    /\ texPc' = "loop"
    /\ UNCHANGED <<texOptions, textures, toProcess, details, tmpDirs,
                   toktxError, lastExit, rmFailed, texStats, texThrown,
                   besideTexture>>

\* const detail = {name, originalFormat, originalSize, compressedSize}
TextureDetail(i, compressed) ==
    [texture |-> i,
     originalFormat |-> textures[i].mime,
     compressedSize |-> IF compressed THEN "compressed" ELSE "original"]

\* The head of `for (const texture of texturesToProcess)`; after the loop,
\* the return of the stats.
TextureLoop ==
    /\ texPc = "loop"
    /\ IF ti > Len(toProcess)
         THEN /\ texStats' =
                    [texturesProcessed |-> Len(toProcess),
                     details |-> details,
                     method |-> IF useToktx THEN "KTX2/Basis Universal (toktx)"
                                            ELSE "WebP (sharp fallback)"]
              /\ texPc' = "returned"
              /\ UNCHANGED ti
       ELSE IF ~textures[toProcess[ti]].hasImage
         THEN /\ ti' = ti + 1                  \* if (!imageData) continue;
              /\ UNCHANGED <<texPc, texStats>>
         ELSE /\ texPc' = IF useToktx THEN "mkdtemp" ELSE "sharp"
              /\ UNCHANGED <<ti, texStats>>
    /\ UNCHANGED <<texOptions, textures, basisu, useToktx, toProcess, details,
                   tmpDirs, toktxError, lastExit, rmFailed, texThrown,
                   besideTexture>>

\* compressedData = await compressWithSharp(imageData, quality);
\* texture.setMimeType('image/webp'); or the catch: keep the original.
CompressWithSharp ==
    /\ texPc = "sharp"
    /\ \E ok \in BOOLEAN :
          /\ textures' = IF ok
                THEN [textures EXCEPT ![toProcess[ti]].mime = "image/webp"]
                ELSE textures
          /\ details' = Append(details, TextureDetail(toProcess[ti], ok))
    /\ ti' = ti + 1
    /\ texPc' = "loop"
    /\ UNCHANGED <<texOptions, basisu, useToktx, toProcess, tmpDirs,
                   toktxError, lastExit, rmFailed, texStats, texThrown,
                   besideTexture>>

\* compressWithToktx: const tmpDir = await fs.mkdtemp(...).  A rejection
\* leaves compressWithToktx before its try, into the caller's catch.
Mkdtemp ==
    /\ texPc = "mkdtemp"
    /\ \E ok \in BOOLEAN :
          IF ok
            THEN /\ tmpDirs' = tmpDirs \cup {ti}
                 /\ texPc' = "writeFile"
                 /\ UNCHANGED <<details, ti, lastExit>>
            ELSE /\ details' = Append(details, TextureDetail(toProcess[ti], FALSE))
                 /\ ti' = ti + 1
                 /\ texPc' = "loop"
                 /\ lastExit' = "mkdtemp"
                 /\ UNCHANGED tmpDirs
    /\ UNCHANGED <<texOptions, textures, basisu, useToktx, toProcess,
                   toktxError, rmFailed, texStats, texThrown, besideTexture>>

\* await fs.writeFile(inputPath, imageData);
WriteFile ==
    /\ texPc = "writeFile"
    /\ \E ok \in BOOLEAN :
          /\ texPc' = IF ok THEN "exec" ELSE "rm"
          /\ toktxError' = IF ok THEN "none" ELSE "writeFile"
    /\ UNCHANGED <<texOptions, textures, basisu, useToktx, toProcess, ti,
                   details, tmpDirs, lastExit, rmFailed, texStats, texThrown,
                   besideTexture>>

\* await execAsync(cmd, { timeout: 60000 }): the encoder exits with 0, or
\* with an error, or is killed after 60 seconds.
ExecToktx ==
    /\ texPc = "exec"
    /\ \E outcome \in {"ok", "failure", "timeout"} :
          /\ texPc' = IF outcome = "ok" THEN "readFile" ELSE "rm"
          /\ toktxError' = IF outcome = "ok" THEN "none" ELSE outcome
    /\ UNCHANGED <<texOptions, textures, basisu, useToktx, toProcess, ti,
                   details, tmpDirs, lastExit, rmFailed, texStats, texThrown,
                   besideTexture>>

\* const compressedData = await fs.readFile(outputPath);
ReadFile ==
    /\ texPc = "readFile"
    /\ \E ok \in BOOLEAN :
          toktxError' = IF ok THEN "none" ELSE "readFile"
    /\ texPc' = "rm"
    /\ UNCHANGED <<texOptions, textures, basisu, useToktx, toProcess, ti,
                   details, tmpDirs, lastExit, rmFailed, texStats, texThrown,
                   besideTexture>>

\* A finally block that removes nothing.
RemoveScratch_never(dirs, dir, ok) == dirs

\* fs.rm(tmpDir, { recursive: true, force: true }), resolved or rejected.
RemoveScratch(dirs, dir, ok) == IF ok THEN dirs \ {dir} ELSE dirs

\* finally { await fs.rm(...).catch(() => {}) }, then compressWithToktx
\* returns or rethrows, and the caller sets the image and MIME type or, in
\* its catch, keeps the original; details.push(detail).
RemoveTmpDir ==
    /\ texPc = "rm"
    /\ \E ok \in BOOLEAN :
          /\ tmpDirs' = RemoveScratch(tmpDirs, ti, ok)
          /\ rmFailed' = IF ok THEN rmFailed ELSE rmFailed \cup {ti}
    /\ lastExit' = IF toktxError = "none" THEN "success" ELSE toktxError
    /\ textures' = IF toktxError = "none"
          THEN [textures EXCEPT ![toProcess[ti]].mime = "image/ktx2"]
          ELSE textures
    /\ details' = Append(details,
                         TextureDetail(toProcess[ti], toktxError = "none"))
    /\ toktxError' = "none"
    /\ ti' = ti + 1
    /\ texPc' = "loop"
    /\ UNCHANGED <<texOptions, basisu, useToktx, toProcess, texStats,
                   texThrown, besideTexture>>

NextTexture ==
    \/ CompressTextures
    \/ IsToktxAvailable
    \/ TextureLoop
    \/ CompressWithSharp
    \/ Mkdtemp
    \/ WriteFile
    \/ ExecToktx
    \/ ReadFile
    \/ RemoveTmpDir

SpecTexture == InitTexture /\ [][NextTexture]_vars

(***************************************************************************)
(* components/mesh-simplifier.ts                                           *)
(***************************************************************************)

\* The most triangles a document holds.
MaxTriangles == 2

\* Math.min(a, b)
Min(a, b) == IF a <= b THEN a ELSE b

\* `targetRatio`, in hundredths: Math.min(1, targetCount / originalTriangles),
\* or options.targetRatio, or 0.5 when neither is specified.
TargetRatio(o, originalTriangles) ==
    IF o.targetCount.def
      THEN Min(100, o.targetCount.x100 \div originalTriangles)
    ELSE IF o.targetRatio.def THEN o.targetRatio.x100
    ELSE 50

InitSimplify ==
    /\ PipelineIdle
    /\ ServerIdle
    /\ DracoInit
    /\ TextureIdle
    /\ CompressorIdle
    /\ FixerIdle
    /\ simOptions \in SimplifyOptionInputs
    /\ simDocument \in [triangles : 0..MaxTriangles, welded : {FALSE}]
    /\ simDocBefore = simDocument
    /\ simPc = "idle"
    /\ simRatio = 0
    /\ simStats = NoSimplifyStats
    /\ simThrown = NoOptionsError

\* simplifyMesh up to `await MeshoptSimplifier.ready`, to its early return,
\* or to the throw of validateOptions.  (A document of the model has one
\* mesh when it has triangles.)
SimplifyMesh ==
    /\ simPc = "idle"
    /\ LET err == validateSimplifyOptions(simOptions)
       IN  IF err.code # "none"
             THEN /\ simThrown' = err
                  /\ simPc' = "thrown"
                  /\ UNCHANGED <<simRatio, simStats>>
           ELSE IF simDocument.triangles = 0
             THEN /\ simStats' = [originalTriangles |-> 0,
                                  simplifiedTriangles |-> 0,
                                  meshesProcessed |-> 0]
                  /\ simPc' = "returned"
                  /\ UNCHANGED <<simRatio, simThrown>>
             ELSE /\ simRatio' = TargetRatio(simOptions, simDocument.triangles)
                  /\ simPc' = "MeshoptSimplifier.ready"
                  /\ UNCHANGED <<simStats, simThrown>>
    /\ UNCHANGED <<simOptions, simDocument, simDocBefore, besideSimplify>>

\* await MeshoptSimplifier.ready;
MeshoptReady ==
    /\ simPc = "MeshoptSimplifier.ready"
    /\ simPc' = "weld"
    /\ UNCHANGED <<simOptions, simDocument, simDocBefore, simRatio, simStats,
                   simThrown, besideSimplify>>

\* await document.transform(weld());
Weld ==
    /\ simPc = "weld"
    /\ simDocument' = [simDocument EXCEPT !.welded = TRUE]
    /\ simPc' = "simplify"
    /\ UNCHANGED <<simOptions, simDocBefore, simRatio, simStats, simThrown,
                   besideSimplify>>

\* await document.transform(simplify({ratio: targetRatio, ...})): the
\* simplifier leaves some number of the triangles; then the stats are
\* counted and returned.
ApplySimplify ==
    /\ simPc = "simplify"
    /\ \E left \in 0..simDocument.triangles :
          /\ simDocument' = [simDocument EXCEPT !.triangles = left]
          /\ simStats' = [originalTriangles |-> simDocBefore.triangles,
                          simplifiedTriangles |-> left,
                          meshesProcessed |-> 1]
    /\ simPc' = "returned"
    /\ UNCHANGED <<simOptions, simDocBefore, simRatio, simThrown,
                   besideSimplify>>

NextSimplify ==
    \/ SimplifyMesh
    \/ MeshoptReady
    \/ Weld
    \/ ApplySimplify

SpecSimplify == InitSimplify /\ [][NextSimplify]_vars

(***************************************************************************)
(* components/draco-compressor.ts                                          *)
(***************************************************************************)

\* The most bytes of geometry a document holds.
MaxGeometry == 4

\* options.compressionLevel < DRACO_COMPRESSION_LEVEL_RANGE.min ||
\* options.compressionLevel > DRACO_COMPRESSION_LEVEL_RANGE.max
CompressionLevelInvalid(level) == level.x100 < 0 \/ level.x100 > 1000

\* A check of the range alone.
QuantizationInvalid_rangeOnly(value) == value.x100 < 100 \/ value.x100 > 3000

\* field.value < 1 || field.value > 30 || !Number.isInteger(field.value)
QuantizationInvalid(value) ==
    value.x100 < 100 \/ value.x100 > 3000 \/ ~IsInteger(value)

\* const quantizationFields = [...], in order
quantizationFields == <<"quantizePosition", "quantizeNormal", "quantizeTexcoord">>

\* function validateOptions(options): the error it throws, or NoOptionsError.
validateDracoOptions(o) ==
    IF o.compressionLevel.def /\ CompressionLevelInvalid(o.compressionLevel)
      THEN OptimizationError("INVALID_OPTIONS", "compressionLevel", "[0, 10]",
                             StringOf(o.compressionLevel))
      ELSE LET bad == {i \in DOMAIN quantizationFields :
                          /\ o[quantizationFields[i]].def
                          /\ QuantizationInvalid(o[quantizationFields[i]])}
           IN  IF bad = {}
                 THEN NoOptionsError
                 ELSE LET first == CHOOSE i \in bad : \A j \in bad : i <= j
                      IN  OptimizationError("INVALID_OPTIONS",
                                            quantizationFields[first], "[1, 30]",
                                            StringOf(o[quantizationFields[first]]))

\* The values tried for each option: absent, below, at and above each limit,
\* and a fraction.
CompressionLevelInputs ==
    {NumUndefined, Num(-100), Num(0), Num(1000), Num(1100)}

QuantizationInputs ==
    {NumUndefined, Num(0), Num(100), Num(1450), Num(3000), Num(3100)}

DracoOptionInputs ==
    [compressionLevel : CompressionLevelInputs,
     quantizePosition : QuantizationInputs,
     quantizeNormal : QuantizationInputs,
     quantizeTexcoord : QuantizationInputs]

InitCompressor ==
    /\ PipelineIdle
    /\ ServerIdle
    /\ DracoInit
    /\ TextureIdle
    /\ SimplifyIdle
    /\ FixerIdle
    /\ dracoOptions \in DracoOptionInputs
    /\ dracoDocument \in [geometrySize : 0..MaxGeometry, dracoRequired : {FALSE}]
    /\ dracoPc = "idle"
    /\ dracoStats = NoDracoStats
    /\ dracoThrown = NoOptionsError

\* compressDraco up to `await document.transform(draco(...))`, to its early
\* return, or to the throw of validateOptions.  (A document of the model
\* has one mesh when it has geometry.)
CompressDraco ==
    /\ dracoPc = "idle"
    /\ LET err == validateDracoOptions(dracoOptions)
       IN  IF err.code # "none"
             THEN /\ dracoThrown' = err
                  /\ dracoPc' = "thrown"
                  /\ UNCHANGED <<dracoDocument, dracoStats>>
           ELSE IF dracoDocument.geometrySize = 0
             THEN /\ dracoStats' = [meshesCompressed |-> 0, originalSize |-> 0,
                                    compressedSize |-> 0]
                  /\ dracoPc' = "returned"
                  /\ UNCHANGED <<dracoDocument, dracoThrown>>
             ELSE /\ dracoDocument' = [dracoDocument EXCEPT !.dracoRequired = TRUE]
                  /\ dracoPc' = "transform"
                  /\ UNCHANGED <<dracoStats, dracoThrown>>
    /\ UNCHANGED <<dracoOptions, besideCompressor>>

\* A report whose estimate grows with the level.
DracoStatsOf_levelScaled(doc, o) ==
    [meshesCompressed |-> 1,
     originalSize |-> doc.geometrySize,
     compressedSize |->
         (doc.geometrySize
            * (15 + (IF o.compressionLevel.def
                       THEN o.compressionLevel.x100 \div 10 ELSE 70)) + 50)
           \div 100]

\* const estimatedRatio = 0.15;
\* const compressedSize = Math.round(originalSize * estimatedRatio);
\* and the stats returned: the options have no part in them.
DracoStatsOf(doc, o) ==
    [meshesCompressed |-> 1,
     originalSize |-> doc.geometrySize,
     compressedSize |-> (doc.geometrySize * 15 + 50) \div 100]

\* await document.transform(draco({...})) returns, and the stats are
\* estimated; or it throws, and the catch throws OPTIMIZATION_FAILED.
DracoTransform ==
    /\ dracoPc = "transform"
    /\ \E ok \in BOOLEAN :
          IF ok
            THEN /\ dracoStats' = DracoStatsOf(dracoDocument, dracoOptions)
                 /\ dracoPc' = "returned"
                 /\ UNCHANGED dracoThrown
            ELSE /\ dracoThrown' = OptimizationError("OPTIMIZATION_FAILED",
                                        "undefined", "undefined", Text("undefined"))
                 /\ dracoPc' = "thrown"
                 /\ UNCHANGED dracoStats
    /\ UNCHANGED <<dracoOptions, dracoDocument, besideCompressor>>

NextCompressor ==
    \/ CompressDraco
    \/ DracoTransform

SpecCompressor == InitCompressor /\ [][NextCompressor]_vars

(***************************************************************************)
(* components/geometry-fixer.ts                                            *)
(*                                                                         *)
(* A component of a Float32Array is NaN, an infinity or a finite number.   *)
(* Finite numbers are held as integers and FloatMax stands for the largest *)
(* finite value: a store of a larger value into a Float32Array stores an   *)
(* infinity.  Arithmetic is done in doubles, which do not overflow here.   *)
(* The accessors of the model hold Float32Arrays of their declared type.   *)
(***************************************************************************)

\* The most primitives a document holds.
MaxPrimitives == 2

\* The largest finite value of a Float32Array component.
FloatMax == 100

NaN == [k |-> "NaN", v |-> 0]

Inf(sign) == [k |-> "Infinity", v |-> sign]

Fin(n) == [k |-> "finite", v |-> n]

isFinite(x) == x.k = "finite"

Sign(n) == IF n > 0 THEN 1 ELSE IF n < 0 THEN -1 ELSE 0

\* normals[i] = x: the store into a Float32Array.
Float32(x) ==
    IF isFinite(x) /\ (x.v > FloatMax \/ x.v < -FloatMax)
      THEN Inf(Sign(x.v)) ELSE x

\* a + b, -a, a - b, a * b
Add(a, b) ==
    IF a.k = "NaN" \/ b.k = "NaN" THEN NaN
    ELSE IF a.k = "Infinity" /\ b.k = "Infinity"
      THEN IF a.v = b.v THEN a ELSE NaN
    ELSE IF a.k = "Infinity" THEN a
    ELSE IF b.k = "Infinity" THEN b
    ELSE Fin(a.v + b.v)

Neg(a) == IF a.k = "NaN" THEN NaN ELSE [k |-> a.k, v |-> 0 - a.v]

Sub(a, b) == Add(a, Neg(b))

Mul(a, b) ==
    IF a.k = "NaN" \/ b.k = "NaN" THEN NaN
    ELSE IF a.k = "Infinity" \/ b.k = "Infinity"
      THEN IF Sign(a.v) * Sign(b.v) = 0 THEN NaN
                                        ELSE Inf(Sign(a.v) * Sign(b.v))
    ELSE Fin(a.v * b.v)

\* arr[i], with JavaScript's index from 0; outside the array it is
\* undefined, which is NaN in arithmetic and not finite.
At(arr, i) == IF i >= 0 /\ i < Len(arr) THEN arr[i + 1] ELSE NaN

\* idx[i] of an index array; outside the array, an index no vertex has.
AtIndex(indexArr, i) ==
    IF i >= 0 /\ i < Len(indexArr) THEN indexArr[i + 1] ELSE 0 - 1

\* function hasNonFinite(arr)
hasNonFinite(arr) == \E i \in DOMAIN arr : ~isFinite(arr[i])

\* function fixNonFinite(arr): the array it leaves, and the count it returns.
fixNonFiniteArray(arr) ==
    [i \in DOMAIN arr |-> IF isFinite(arr[i]) THEN arr[i] ELSE Fin(0)]

fixNonFiniteCount(arr) == Cardinality({i \in DOMAIN arr : ~isFinite(arr[i])})

\* Math.max(a, b)
Max(a, b) == IF a >= b THEN a ELSE b

\* function isNormalValid(acc)
isNormalValid(a) ==
    /\ Len(a) # 0
    /\ LET step == Max(3, (Len(a) \div 30) * 3)
       IN  \A i \in 0..(Len(a) - 1) :
             i % step = 0 =>
               LET x == At(a, i)
                   y == At(a, i + 1)
                   z == At(a, i + 2)
               IN  /\ isFinite(x) /\ isFinite(y) /\ isFinite(z)
                   \* len < 0.5 || len > 1.5, for whole numbers
                   /\ x.v * x.v + y.v * y.v + z.v * z.v \in 1..2

\* function isTangentValid(acc)
isTangentValid(a) ==
    /\ Len(a) # 0
    /\ ~hasNonFinite(a)
    /\ LET step == Max(4, (Len(a) \div 40) * 4)
       IN  \A i \in 3..(Len(a) - 1) :
             (i - 3) % step = 0 => a[i + 1].v \in {1, 0 - 1}

\* The cross product of the edges from the vertex at offset a to those at
\* offsets b and c: nx, ny, nz.
FaceNormal(pos, a, b, c) ==
    LET ex == Sub(At(pos, b), At(pos, a))
        ey == Sub(At(pos, b + 1), At(pos, a + 1))
        ez == Sub(At(pos, b + 2), At(pos, a + 2))
        fx == Sub(At(pos, c), At(pos, a))
        fy == Sub(At(pos, c + 1), At(pos, a + 1))
        fz == Sub(At(pos, c + 2), At(pos, a + 2))
    IN  <<Sub(Mul(ey, fz), Mul(ez, fy)),
          Sub(Mul(ez, fx), Mul(ex, fz)),
          Sub(Mul(ex, fy), Mul(ey, fx))>>

\* The else branch of computeNormals: each run of three vertices is a face.
FlatNormals(pos, vCount) ==
    [k \in 1..(vCount * 3) |->
        LET i == ((k - 1) \div 9) * 9
        IN  Float32(FaceNormal(pos, i, i + 3, i + 6)[((k - 1) % 3) + 1])]

\* normals[o] += nx; normals[o + 1] += ny; normals[o + 2] += nz;
\* a store outside the array does nothing.
AddAtVertex(normals, vi, n) ==
    [k \in DOMAIN normals |->
        IF vi >= 0 /\ (k - 1) \div 3 = vi
          THEN Float32(Add(normals[k], n[((k - 1) % 3) + 1]))
          ELSE normals[k]]

\* The if branch of computeNormals, from the face at idx[i] on.
RECURSIVE SmoothNormals(_, _, _, _)
SmoothNormals(pos, indexArr, i, normals) ==
    IF i >= Len(indexArr) THEN normals
    ELSE LET va == AtIndex(indexArr, i)
             vb == AtIndex(indexArr, i + 1)
             vc == AtIndex(indexArr, i + 2)
             n == FaceNormal(pos, va * 3, vb * 3, vc * 3)
         IN  SmoothNormals(pos, indexArr, i + 3,
                 AddAtVertex(AddAtVertex(AddAtVertex(normals, va, n), vb, n),
                             vc, n))

\* len = Math.sqrt(x ** 2 + y ** 2 + z ** 2);
\* if (len > 1e-6) divide each by len, else set (0, 1, 0).
\* A NaN makes len NaN and the test false; an infinity makes len infinite,
\* and dividing by it gives NaN for an infinity and 0 for a finite number.
\* A quotient of finite numbers is held as its sign.
NormalizeVector(x, y, z) ==
    IF x.k = "NaN" \/ y.k = "NaN" \/ z.k = "NaN"
      THEN <<Fin(0), Fin(1), Fin(0)>>
    ELSE IF ~isFinite(x) \/ ~isFinite(y) \/ ~isFinite(z)
      THEN <<IF isFinite(x) THEN Fin(0) ELSE NaN,
             IF isFinite(y) THEN Fin(0) ELSE NaN,
             IF isFinite(z) THEN Fin(0) ELSE NaN>>
    ELSE IF x.v * x.v + y.v * y.v + z.v * z.v > 0
      THEN <<Fin(Sign(x.v)), Fin(Sign(y.v)), Fin(Sign(z.v))>>
      ELSE <<Fin(0), Fin(1), Fin(0)>>

\* The loop `// normalize` of computeNormals.
Normalize(normals) ==
    [k \in DOMAIN normals |->
        LET i == ((k - 1) \div 3) * 3
        IN  NormalizeVector(At(normals, i), At(normals, i + 1),
                            At(normals, i + 2))[((k - 1) % 3) + 1]]

NoAttribute == [present |-> FALSE, arr |-> <<>>]

Attribute(arr) == [present |-> TRUE, arr |-> arr]

\* function computeNormals(prim, doc): the new accessor, or null
\* (NoAttribute) when the primitive has no POSITION.
computeNormals(prim) ==
    IF ~prim.POSITION.present THEN NoAttribute
    ELSE LET pos == prim.POSITION.arr
             vCount == Len(pos) \div 3
             zeros == [k \in 1..(vCount * 3) |-> Fin(0)]
         IN  Attribute(Normalize(
                 IF prim.indices.present
                   THEN SmoothNormals(pos, prim.indices.arr, 0, zeros)
                   ELSE FlatNormals(pos, vCount)))

\* The body of `for (const prim of mesh.listPrimitives())` in repairInput:
\* the primitive it leaves and what it adds to the result.
repairPrimitive(prim) ==
    LET position == IF prim.POSITION.present
                      THEN Attribute(fixNonFiniteArray(prim.POSITION.arr))
                      ELSE prim.POSITION
        withPosition == [prim EXCEPT !.POSITION = position]
        fixedNormal == Attribute(fixNonFiniteArray(prim.NORMAL.arr))
        newNorm == computeNormals(withPosition)
        regenerate == /\ prim.NORMAL.present
                      /\ ~isNormalValid(fixedNormal.arr)
                      /\ newNorm.present
        FixUV(attr) == IF attr.present
                         THEN Attribute(fixNonFiniteArray(attr.arr)) ELSE attr
        removeTangent == prim.TANGENT.present /\ ~isTangentValid(prim.TANGENT.arr)
    IN  [prim |->
            [POSITION |-> position,
             NORMAL |-> IF ~prim.NORMAL.present THEN prim.NORMAL
                        ELSE IF regenerate THEN newNorm ELSE fixedNormal,
             TEXCOORD_0 |-> FixUV(prim.TEXCOORD_0),
             TEXCOORD_1 |-> FixUV(prim.TEXCOORD_1),
             TEXCOORD_2 |-> prim.TEXCOORD_2,
             TANGENT |-> IF removeTangent THEN NoAttribute ELSE prim.TANGENT,
             indices |-> prim.indices],
         invalidVerticesFixed |->
             fixNonFiniteCount(prim.POSITION.arr)
               + fixNonFiniteCount(prim.TEXCOORD_0.arr)
               + fixNonFiniteCount(prim.TEXCOORD_1.arr),
         normalsRegenerated |-> IF regenerate THEN 1 ELSE 0,
         tangentsRemoved |-> IF removeTangent THEN 1 ELSE 0]

\* The sum of f[1], ..., f[n].
RECURSIVE SumTo(_, _)
SumTo(f, n) == IF n = 0 THEN 0 ELSE f[n] + SumTo(f, n - 1)

\* The arrays tried.
Floats(ints) == [i \in DOMAIN ints |-> Fin(ints[i])]

PositionInputs ==
    {NoAttribute,
     Attribute(Floats(<<0, 0, 0, 1, 0, 0, 0, 1, 0>>)),
     Attribute([Floats(<<0, 0, 0, 1, 0, 0, 0, 1, 0>>) EXCEPT ![4] = NaN, ![8] = Inf(1)]),
     Attribute(Floats(<<0, 0, 0, FloatMax, 0, 0, 0, FloatMax, 0>>))}

NormalInputs ==
    {NoAttribute,
     Attribute(Floats(<<0, 0, 1, 0, 0, 1, 0, 0, 1>>)),
     Attribute([Floats(<<0, 0, 1, 0, 0, 1, 0, 0, 1>>) EXCEPT ![1] = NaN]),
     Attribute(Floats(<<0, 0, 0, 0, 0, 0, 0, 0, 0>>))}

TexcoordInputs ==
    {NoAttribute, Attribute([Floats(<<0, 0, 1, 0, 0, 1>>) EXCEPT ![2] = NaN])}

TangentInputs ==
    {NoAttribute,
     Attribute(Floats(<<1, 0, 0, 1, 1, 0, 0, 1, 1, 0, 0, 1>>)),
     Attribute(Floats(<<1, 0, 0, 0, 1, 0, 0, 0, 1, 0, 0, 0>>))}

SoundPosition == Attribute(Floats(<<0, 0, 0, 1, 0, 0, 0, 1, 0>>))

SoundNormal == Attribute(Floats(<<0, 0, 1, 0, 0, 1, 0, 0, 1>>))

\* A primitive without texture coordinates and tangents.
Bare(p, n, ix) ==
    [POSITION |-> p, NORMAL |-> n, TEXCOORD_0 |-> NoAttribute,
     TEXCOORD_1 |-> NoAttribute, TEXCOORD_2 |-> NoAttribute,
     TANGENT |-> NoAttribute, indices |-> ix]

\* A triangle with every combination of position and normal; the indexed
\* triangle whose normals are to be regenerated; and a sound triangle with
\* texture coordinates or with tangents.
PrimitiveInputs ==
    {Bare(p, n, [present |-> FALSE, arr |-> <<>>]) :
        p \in PositionInputs, n \in NormalInputs}
    \cup
    {Bare(p, Attribute(Floats(<<0, 0, 0, 0, 0, 0, 0, 0, 0>>)),
          [present |-> TRUE, arr |-> <<0, 1, 2>>]) : p \in PositionInputs}
    \cup
    {[Bare(SoundPosition, SoundNormal, [present |-> FALSE, arr |-> <<>>])
        EXCEPT !.TEXCOORD_0 = t0, !.TEXCOORD_1 = t1, !.TEXCOORD_2 = t2] :
        t0 \in TexcoordInputs, t1 \in TexcoordInputs, t2 \in TexcoordInputs}
    \cup
    {[Bare(SoundPosition, SoundNormal, [present |-> FALSE, arr |-> <<>>])
        EXCEPT !.TANGENT = tg] : tg \in TangentInputs}

InitFixer ==
    /\ PipelineIdle
    /\ ServerIdle
    /\ DracoInit
    /\ TextureIdle
    /\ SimplifyIdle
    /\ CompressorIdle
    /\ primitives \in UNION {[1..n -> PrimitiveInputs] : n \in 0..MaxPrimitives}
    /\ orphans \in 0..1
    /\ repairPc = "idle"
    /\ repairResult = NoFixResult

\* repairInput(doc): it awaits nothing.  An empty accessor that only the
\* root refers to is disposed of; one that a primitive uses is kept.
RepairInput ==
    /\ repairPc = "idle"
    /\ LET repaired == [i \in DOMAIN primitives |-> repairPrimitive(primitives[i])]
           n == Len(primitives)
       IN  /\ primitives' = [i \in DOMAIN primitives |-> repaired[i].prim]
           /\ repairResult' =
                 [invalidVerticesFixed |->
                      SumTo([i \in 1..n |-> repaired[i].invalidVerticesFixed], n),
                  normalsRegenerated |->
                      SumTo([i \in 1..n |-> repaired[i].normalsRegenerated], n),
                  tangentsRemoved |->
                      SumTo([i \in 1..n |-> repaired[i].tangentsRemoved], n),
                  emptyAccessorsRemoved |-> orphans,
                  totalPrimitivesProcessed |-> n]
    /\ orphans' = 0
    /\ repairPc' = "returned"
    /\ UNCHANGED besideFixer

NextFixer == RepairInput

SpecFixer == InitFixer /\ [][NextFixer]_vars

(***************************************************************************)
(* routes/optimize.ts, utils/storage.ts and the setInterval of index.ts:   *)
(* the files a request leaves under ./temp, and the periodic cleanup.      *)
(***************************************************************************)
MaxClock == 8

\* const MAX_FILE_AGE = 60 * 60 * 1000, in intervals of
\* CLEANUP_INTERVAL = 10 * 60 * 1000.
MAX_FILE_AGE == 6

\* The directories under ./temp: path.join('./temp', taskId) of a request,
\* and the uploadsPath and resultsPath of the storage manager.
TaskDir == "temp/<taskId>"

UploadsPath == "temp/uploads"

ResultsPath == "temp/results"

\* A file of request q: its directory, its name and its mtime.
TempFile(q, dir, name, mtime) ==
    [task |-> q, dir |-> dir, name |-> name, mtime |-> mtime]

InitCleanup ==
    /\ PipelineIdle
    /\ LibraryIdle
    /\ SanitizerIdle
    /\ AuthIdle
    /\ CleanupIdle

\* fs.mkdirSync(tempDir); fs.writeFileSync(uploadedFilePath, fileBuffer)
SaveUpload(q) ==
    /\ reqPc[q] = "none"
    /\ \E ext \in {".glb", ".obj"} :
          reqExt' = [reqExt EXCEPT ![q] = ext]
    /\ tempFiles' = tempFiles \cup {TempFile(q, TaskDir, "input", clock)}
    /\ reqPc' = [reqPc EXCEPT ![q] = "uploaded"]
    /\ UNCHANGED <<clock, besideCleanup>>

\* if (ext !== '.glb') convertToGLB(uploadedFilePath, convertedGlbPath, ...)
\* else validateGlbBuffer(fileBuffer); either may end the request.
ConvertOrValidate(q) ==
    /\ reqPc[q] = "uploaded"
    /\ \E ok \in BOOLEAN :
          /\ reqPc' = [reqPc EXCEPT ![q] = IF ok THEN "executePipeline"
                                                 ELSE "responded"]
          /\ tempFiles' =
                IF ok /\ reqExt[q] # ".glb"
                  THEN tempFiles \cup
                         {TempFile(q, TaskDir, "converted.glb", clock)}
                  ELSE tempFiles
    /\ UNCHANGED <<clock, reqExt, besideCleanup>>

\* outputPath = getResultFilePath(taskId);
\* await executePipeline(inputGlbPath, outputPath, options): the run writes
\* its output or ends before that.
ExecutePipeline(q) ==
    /\ reqPc[q] = "executePipeline"
    /\ \E written \in BOOLEAN :
          tempFiles' =
            IF written
              THEN tempFiles \cup {TempFile(q, ResultsPath, "<taskId>.glb", clock)}
              ELSE tempFiles
    /\ reqPc' = [reqPc EXCEPT ![q] = "responded"]
    /\ UNCHANGED <<clock, reqExt, besideCleanup>>

\* Ten minutes pass.
Tick ==
    /\ clock < MaxClock
    /\ clock' = clock + 1
    /\ UNCHANGED <<tempFiles, reqPc, reqExt, besideCleanup>>

\* The directories of cleanupOldFiles: this.uploadsPath, this.resultsPath.
cleanupDirectoryPaths == {UploadsPath, ResultsPath}

\* cleanupDirectory(dirPath, now, maxAgeMs): the files of dirPath whose
\* age is over maxAgeMs.
Expired(dirPath, now, maxAgeMs) ==
    {f \in tempFiles : f.dir = dirPath /\ now - f.mtime > maxAgeMs}

\* The setInterval callback: cleanupOldFiles(MAX_FILE_AGE).  A file whose
\* stat or unlink throws is skipped.
CleanupOldFiles ==
    /\ LET expired == UNION {Expired(d, clock, MAX_FILE_AGE) :
                                 d \in cleanupDirectoryPaths}
       IN  \E skipped \in SUBSET expired :
              tempFiles' = tempFiles \ (expired \ skipped)
    /\ UNCHANGED <<clock, reqPc, reqExt, besideCleanup>>

NextCleanup ==
    \/ \E q \in Requests : SaveUpload(q)
    \/ \E q \in Requests : ConvertOrValidate(q)
    \/ \E q \in Requests : ExecutePipeline(q)
    \/ Tick
    \/ CleanupOldFiles

SpecCleanup == InitCleanup /\ [][NextCleanup]_vars

(***************************************************************************)
(* middleware/auth.ts and the mounting of the routers in index.ts.         *)
(***************************************************************************)

\* app.use('/api/...', authMiddleware, ...Router)
API_ROUTES == {"/api/optimize", "/api/download", "/api/status", "/api/analyze"}

\* export const isAuthEnabled: !!key && key.length > 0
isAuthEnabled(env) == env.set /\ env.v # ""

\* A check that takes any authorization scheme.
BearerMatches_anyType(req, apiKey) ==
    /\ Len(req.authorization) >= 2
    /\ req.authorization[2] = apiKey

\* const [type, token] = authHeader.split(' ');
\* type === 'Bearer' && token === apiKey
BearerMatches(req, apiKey) ==
    /\ Len(req.authorization) >= 2
    /\ req.authorization[1] = "Bearer"
    /\ req.authorization[2] = apiKey

\* authMiddleware(req, res, next): TRUE when it calls next().
authMiddleware(env, req) ==
    \/ ~isAuthEnabled(env)
    \/ BearerMatches(req, env.v)
    \/ req.xApiKey = Str(env.v)
    \/ req.apiKeyQuery = Str(env.v)

\* The requests tried: k1 is the key when one is set, k2 is another.
AuthorizationInputs ==
    {<<>>, <<"Bearer", "k1">>, <<"Bearer", "k2">>, <<"bearer", "k1">>,
     <<"Basic", "k1">>, <<"Bearer">>, <<"Bearer", "", "k1">>,
     <<"Bearer", "k1", "x">>}

AuthRequestInputs ==
    [route : API_ROUTES \cup {"/health"},
     authorization : AuthorizationInputs,
     xApiKey : {Undefined, Str("k1"), Str("k2")},
     apiKeyQuery : {Undefined, Str("k1"), Str("k2"), Arr("k1")}]

InitAuth ==
    /\ PipelineIdle
    /\ LibraryIdle
    /\ SanitizerIdle
    /\ CleanupIdle
    /\ apiKeyEnv \in {[set |-> FALSE, v |-> ""], [set |-> TRUE, v |-> ""],
                      [set |-> TRUE, v |-> "k1"]}
    /\ authRequest \in AuthRequestInputs
    /\ authPc = "received"

\* The request reaches its route: through authMiddleware for an API route,
\* which answers 401 or calls next().
HandleRequest ==
    /\ authPc = "received"
    /\ authPc' = IF authRequest.route \in API_ROUTES
                      /\ ~authMiddleware(apiKeyEnv, authRequest)
                   THEN "401" ELSE "handler"
    /\ UNCHANGED <<apiKeyEnv, authRequest, besideAuth>>

NextAuth == HandleRequest

SpecAuth == InitAuth /\ [][NextAuth]_vars

(***************************************************************************)
(* utils/validate-options.ts, and the steps run on what it returns.        *)
(***************************************************************************)

\* SIMPLIFY_RATIO_RANGE.min, in hundredths.
SIMPLIFY_RATIO_MIN == 10

\* function clamp(val, min, max): Math.max(min, Math.min(max, val))
clamp(val, min, max) == Max(min, Min(max, val))

\* Math.round of a number held in hundredths: halves go up.
MathRound(x100) == ((x100 + 50) \div 100) * 100

\* Number(value) || fallback, for a number: 0 is falsy.
NumberOr(n, fallback) == IF n.x100 = 0 THEN fallback ELSE n.x100

\* The part `// Simplify` of validateOptions.
sanitizeSimplify(g) ==
    IF ~g.enabled THEN g
    ELSE [enabled |-> g.enabled,
          targetRatio |->
              IF g.targetRatio.def
                THEN Num(clamp(g.targetRatio.x100, SIMPLIFY_RATIO_MIN,
                               SIMPLIFY_RATIO_MAX))
                ELSE g.targetRatio,
          targetCount |->
              IF g.targetCount.def
                THEN IF g.targetCount.x100 < 100
                       THEN NumUndefined
                       ELSE Num(MathRound(g.targetCount.x100))
                ELSE g.targetCount,
          error |->
              IF g.error.def THEN Num(clamp(NumberOr(g.error, 1), 0, 100))
                             ELSE g.error]

\* d[key] = clamp(Math.round(Number(d[key]) || 10), 1, 30)
sanitizeQuantization(n) ==
    IF n.def THEN Num(clamp(MathRound(NumberOr(n, 1000)), 100, 3000)) ELSE n

\* The part `// Draco` of validateOptions.
sanitizeDraco(g) ==
    IF ~g.enabled THEN g
    ELSE [enabled |-> g.enabled,
          compressionLevel |->
              IF g.compressionLevel.def
                THEN Num(clamp(MathRound(NumberOr(g.compressionLevel, 700)),
                               0, 1000))
                ELSE g.compressionLevel,
          quantizePosition |-> sanitizeQuantization(g.quantizePosition),
          quantizeNormal |-> sanitizeQuantization(g.quantizeNormal),
          quantizeTexcoord |-> sanitizeQuantization(g.quantizeTexcoord)]

\* The part `// Texture` of validateOptions; the mode "" is falsy.
sanitizeTexture(g) ==
    IF ~g.enabled THEN g
    ELSE LET mode == IF g.mode \notin {"undefined", ""}
                          /\ g.mode \notin TEXTURE_MODES
                       THEN "ETC1S" ELSE g.mode
             max == IF mode = "UASTC" THEN 400 ELSE 25500
         IN  [enabled |-> g.enabled,
              mode |-> mode,
              quality |->
                  IF g.quality.def
                    THEN Num(clamp(MathRound(NumberOr(g.quality, 12800)),
                                   100, max))
                    ELSE g.quality]

\* The errors validateOptions pushes, for numbers and strings.
sanitizeErrors(raw) ==
    (IF raw.simplify.enabled /\ raw.simplify.targetCount.def
          /\ raw.simplify.targetCount.x100 < 100
       THEN <<"simplify.targetCount must be a positive integer">> ELSE <<>>)
    \o
    (IF raw.texture.enabled /\ raw.texture.mode \notin {"undefined", ""}
          /\ raw.texture.mode \notin TEXTURE_MODES
       THEN <<"texture.mode must be one of">> ELSE <<>>)

\* export function validateOptions(raw): { valid, errors, sanitized }
validateOptions(raw) ==
    [valid |-> sanitizeErrors(raw) = <<>>,
     errors |-> sanitizeErrors(raw),
     sanitized |-> [simplify |-> sanitizeSimplify(raw.simplify),
                    draco |-> sanitizeDraco(raw.draco),
                    texture |-> sanitizeTexture(raw.texture)]]

\* The groups tried: a group that is not enabled, and enabled groups with
\* values absent, below, inside and above what the component accepts.
RawSimplifyInputs ==
    {NoRawOptions.simplify} \cup
    [enabled : {TRUE},
     targetRatio : {NumUndefined, Num(5), Num(50), Num(150)},
     targetCount : {NumUndefined, Num(50), Num(140), Num(10000)},
     error : {NumUndefined, Num(0), Num(200)}]

RawDracoInputs ==
    {NoRawOptions.draco} \cup
    [enabled : {TRUE},
     compressionLevel : {NumUndefined, Num(0), Num(250), Num(1100)},
     quantizePosition : {NumUndefined, Num(0), Num(3100)},
     quantizeNormal : {NumUndefined, Num(1050)},
     quantizeTexcoord : {NumUndefined}]

RawTextureInputs ==
    {NoRawOptions.texture} \cup
    [enabled : {TRUE},
     mode : {"undefined", "", "ETC1S", "UASTC", "BASIS"},
     quality : {NumUndefined, Num(0), Num(25600)}]

RawOptionInputs ==
    [simplify : RawSimplifyInputs, draco : RawDracoInputs,
     texture : RawTextureInputs]

\* The steps of the run that take options the sanitizer touches, in the
\* order of OPTIMIZATION_ORDER.
SanitizedSteps == <<"simplify", "draco", "texture">>

\* What the component's own validateOptions throws for the options of a
\* step, as the code and the field of the error.
stepOptionsError(step, opts) ==
    LET err == IF step = "simplify" THEN validateSimplifyOptions(opts.simplify)
               ELSE IF step = "draco" THEN validateDracoOptions(opts.draco)
               ELSE validateTextureOptions(
                        [mode |-> opts.texture.mode,
                         quality |-> opts.texture.quality, slots |-> <<>>])
    IN  [code |-> err.code, field |-> err.field]

InitSanitizer ==
    /\ PipelineIdle
    /\ LibraryIdle
    /\ CleanupIdle
    /\ AuthIdle
    /\ rawOptions \in RawOptionInputs
    /\ sanitized = NoRawOptions
    /\ sanPc = "idle"
    /\ sanFailed = NoStepFailure

\* const { sanitized } = validateOptions(options); options = sanitized;
ValidateOptions ==
    /\ sanPc = "idle"
    /\ sanitized' = validateOptions(rawOptions).sanitized
    /\ sanPc' = SanitizedSteps[1]
    /\ UNCHANGED <<rawOptions, sanFailed, besideSanitizer>>

\* The run comes to a step: a step that is not enabled is passed over; an
\* enabled one validates its options first, and its throw fails the step
\* and ends the run.
RunStep(i) ==
    /\ sanPc = SanitizedSteps[i]
    /\ LET step == SanitizedSteps[i]
           err == stepOptionsError(step, sanitized)
       IN  IF sanitized[step].enabled /\ err.code # "none"
             THEN /\ sanFailed' = [step |-> step, code |-> err.code,
                                   field |-> err.field]
                  /\ sanPc' = "failed"
             ELSE /\ sanPc' = IF i < Len(SanitizedSteps)
                                THEN SanitizedSteps[i + 1] ELSE "done"
                  /\ UNCHANGED sanFailed
    /\ UNCHANGED <<rawOptions, sanitized, besideSanitizer>>

NextSanitizer ==
    \/ ValidateOptions
    \/ \E i \in DOMAIN SanitizedSteps : RunStep(i)

SpecSanitizer == InitSanitizer /\ [][NextSanitizer]_vars

(***************************************************************************)
(* The properties.  They name the order and the gate as the specification  *)
(* states them, not through the definitions above.                         *)
(***************************************************************************)
FixedOrder ==
    <<"repair-input", "clean", "merge", "simplify", "quantize", "draco",
      "texture", "repair-output">>

RepairSteps == {"repair-input", "repair-output"}

Position(step) == CHOOSE i \in DOMAIN FixedOrder : FixedOrder[i] = step

AnyStepFailed == \E i \in DOMAIN steps : ~steps[i].success

Returned == result # NoResult

\* The steps the scheduler selects: the repair steps and the user steps
\* whose `enabled` passes the if.
Selected(step) ==
    step \in RepairSteps \/ JSTruthy(OptEnabled(options, step))

\* C1: once a step of the run has failed, no later step of the fixed order is
\* executed: the failed step is the last one executeStep was called for, no
\* step is running and the run is over.
C1_NoStepAfterFailure ==
    \A i \in DOMAIN steps :
        ~steps[i].success =>
            /\ i = Len(steps)
            /\ Len(started) = i
            /\ started[i] = steps[i].step
            /\ running = "none"
            /\ pc = "Done"

\* C1: the run of the test: simplify has failed with quantize and draco
\* enabled after it.
C1_Witness ==
    /\ pc = "Done"
    /\ Len(steps) = 3
    /\ steps[3].step = "simplify"
    /\ ~steps[3].success
    /\ OptEnabled(options, "quantize") = JSBool(TRUE)
    /\ OptEnabled(options, "draco") = JSBool(TRUE)

\* C2: if any step of the run has failed, the run has not touched the output
\* path: the output file is as it was and no output directory was made.
C2_NoOutputAfterFailure ==
    AnyStepFailed => outputFile = "absent" /\ ~outputDirMade

\* C2: a run that failed in its last step, repair-output.
C2_Witness ==
    /\ pc = "Done"
    /\ Len(steps) >= 2
    /\ steps[Len(steps)].step = "repair-output"
    /\ ~steps[Len(steps)].success
    /\ outputFile = "absent"

\* C3: the step names recorded in `steps`, and in a returned result, are in
\* the fixed order: positions strictly increase.
C3_RecordedInFixedOrder ==
    /\ \A i, j \in DOMAIN steps :
           i < j => Position(steps[i].step) < Position(steps[j].step)
    /\ Returned =>
           \A i, j \in DOMAIN result.steps :
               i < j => Position(result.steps[i].step) < Position(result.steps[j].step)

\* C3: a successful run of all eight steps.
C3_Witness ==
    /\ Returned
    /\ result.success
    /\ Len(result.steps) = 8

\* C4: a user step is executed only when options[step].enabled is true, for
\* every other value it is skipped, and the two repair steps are executed
\* whatever the options are.
C4_SelectedOnlyWhenEnabledTrue ==
    /\ \A i \in DOMAIN started :
           started[i] \in UserSteps => OptEnabled(options, started[i]) = JSBool(TRUE)
    /\ pc \in {"mkdir", "io.write", "getOptimizedSize"} =>
           /\ \A s \in RepairSteps : \E i \in DOMAIN started : started[i] = s
           /\ \A s \in UserSteps :
                  OptEnabled(options, s) = JSBool(TRUE) =>
                      \E i \in DOMAIN started : started[i] = s

\* C5 (as stated): whenever the run has failed, in a step or in io.write, the
\* caller holds a result whose steps are the results of all steps that ran.
C5_FailureReturnsSteps ==
    (pc = "Done" /\ fault \in {"executeStep", "io.write"}) =>
        /\ Returned
        /\ result.steps = steps
        /\ Len(result.steps) = Len(started)

\* C5 (amended): when a step has failed, the caller holds a result with
\* success false whose steps are, in execution order, the results of the steps
\* that ran, the failed one last and every earlier one with its statistics;
\* when io.write has failed, the caller holds no result: the promise rejected.
C5_StepFailureReturnsSteps ==
    /\ (pc = "Done" /\ fault = "executeStep") =>
           /\ Returned
           /\ ~result.success
           /\ result.steps = steps
           /\ Len(result.steps) = Len(started)
           /\ \A i \in DOMAIN result.steps :
                  /\ result.steps[i].step = started[i]
                  /\ result.steps[i].success <=> i < Len(result.steps)
                  /\ result.steps[i].success =>
                         result.steps[i].stats = ComponentStats(started[i])
    /\ (pc = "Done" /\ fault = "io.write") =>
           /\ ~Returned
           /\ thrown # NoError

\* C5: a run that failed in its third step or later.
C5_Witness ==
    /\ pc = "Done"
    /\ fault = "executeStep"
    /\ Returned
    /\ Len(result.steps) >= 3

C7_BadInputIsInvalidFile ==
    ~inputFile.parses =>
        /\ started = <<>>
        /\ steps = <<>>
        /\ (pc = "Done" /\ fault # "getDracoModules") =>
               /\ fault \in {"getFileSize", "io.read"}
               /\ ~Returned
               /\ thrown.name = "PipelineError"
               /\ thrown.code = "INVALID_FILE"

\* C7: a run on a file that exists, is not empty and does not parse.
C7_Witness ==
    /\ pc = "Done"
    /\ inputFile.exists
    /\ inputFile.size > 0
    /\ ~inputFile.parses
    /\ fault = "io.read"

Phase(p) ==
    CASE p = "Initial" -> 0
      [] p \in {"getFileSize", "getDracoModules", "io.read"} -> 1
      [] p \in {"loop", "executeStep"} -> 2
      [] p \in {"mkdir", "io.write", "getOptimizedSize"} -> 3
      [] p = "Done" -> 4

\* C8: a run only moves forward through Initial, Reading, Running, Writing,
\* Done: no step is started before the document was read, no step is started
\* twice, the loop never goes back, writing starts only after every selected
\* step has succeeded, and a run that is Done changes nothing.
C8_ForwardOnly ==
    /\ [](started # <<>> => document = "doc")
    /\ [](\A i, j \in DOMAIN started : i # j => started[i] # started[j])
    /\ [](Phase(pc) = 3 =>
            /\ \A i \in DOMAIN steps : steps[i].success
            /\ \A k \in DOMAIN FixedOrder :
                   Selected(FixedOrder[k]) =>
                       \E i \in DOMAIN steps : steps[i].step = FixedOrder[k])
    /\ [][/\ Phase(pc') >= Phase(pc)
          /\ (Phase(pc) = 2 /\ Phase(pc') = 2) => idx' >= idx
          /\ pc = "Done" => UNCHANGED vars]_vars

\* C8: the run is writing after three or more steps.
C8_Witness ==
    /\ pc = "io.write"
    /\ Len(started) >= 3

\* The number of user steps whose `enabled` is true.
EnabledTrueCount ==
    Cardinality({s \in UserSteps : OptEnabled(options, s) = JSBool(TRUE)})

\* C9: a successful run with K user steps enabled returns K + 2 step entries.
C9_StepCount ==
    (Returned /\ result.success) => Len(result.steps) = EnabledTrueCount + 2

ProgressEvent(step, status) == [step |-> step, status |-> status]

\* C11 (as stated): for each step a run executes the progress sink receives
\* one start event followed by one done or error event, so a finished run
\* that executed n steps has emitted exactly 2n events, in step order.
C11_TwoEventsPerStep ==
    pc = "Done" =>
        /\ Len(sinkEvents) = 2 * Len(started)
        /\ \A i \in DOMAIN started :
              /\ sinkEvents[2 * i - 1] = ProgressEvent(started[i], "start")
              /\ sinkEvents[2 * i].step = started[i]
              /\ sinkEvents[2 * i].status \in {"done", "error"}

\* C12: however the first calls of getDracoModules interleave, each draco3d
\* factory is called exactly once, and every caller that getDracoModules
\* returned to holds the same pair, with both modules set.
C12_CreatedOnceSamePair ==
    /\ decoderCreated <= 1
    /\ encoderCreated <= 1
    /\ (\E c \in Callers : callerPc[c] # "idle") =>
          (decoderCreated = 1 /\ encoderCreated = 1)
    /\ \A c \in Callers :
          callerPc[c] = "returned" =>
              /\ received[c].decoder # 0
              /\ received[c].encoder # 0
              /\ \A d \in Callers :
                    callerPc[d] = "returned" => received[d] = received[c]

\* C12: every caller called before the initialization had settled, and all
\* of them have been returned to.
C12_Witness ==
    /\ calledUnsettled = Callers
    /\ \A c \in Callers : callerPc[c] = "returned"

\* C13 (as stated): when an invocation of the texture encoder has returned,
\* its scratch directory is gone: the only scratch directory that exists
\* is that of the invocation in progress.
C13_ScratchRemovedOnReturn ==
    \A dir \in tmpDirs : texPc \in ToktxPcs /\ dir = ti

\* C13 (amended): a scratch directory that outlives its invocation is one
\* whose removal was attempted and failed; on every exit path with the
\* removal succeeding, the directory is gone when the invocation returns.
C13_ScratchRemovedUnlessRmFails ==
    /\ \A dir \in tmpDirs : (texPc \in ToktxPcs /\ dir = ti) \/ dir \in rmFailed
    /\ \A dir \in rmFailed : dir \in tmpDirs

\* C13: the encoder timed out in the second invocation, after a first one,
\* and no scratch directory is left.
C13_Witness ==
    /\ texPc = "returned"
    /\ lastExit = "timeout"
    /\ Len(details) = 2
    /\ tmpDirs = {}

C19_DetailsMatchProcessed ==
    texPc = "returned" => Len(texStats.details) = texStats.texturesProcessed

\* The options C14 names: a targetRatio that is <= 0 or > 1, a targetCount
\* that is <= 0 or not an integer, both of them, or an error < 0 or > 1.
C14_Named(o) ==
    \/ o.targetRatio.def /\ (o.targetRatio.x100 <= 0 \/ o.targetRatio.x100 > 100)
    \/ o.targetCount.def /\ (o.targetCount.x100 <= 0 \/ o.targetCount.x100 % 100 # 0)
    \/ o.targetRatio.def /\ o.targetCount.def
    \/ o.error.def /\ (o.error.x100 < 0 \/ o.error.x100 > 100)

\* C14: called with such options, simplify fails with InvalidOptions and the
\* document is as it was before the call.
C14_InvalidOptionsLeaveDocument ==
    (C14_Named(simOptions) /\ simPc # "idle") =>
        /\ simPc = "thrown"
        /\ simThrown.code = "INVALID_OPTIONS"
        /\ simDocument = simDocBefore

\* C14: simplify was called on a document with triangles with a targetCount
\* of 5.5 and nothing else wrong, and has thrown.
C14_Witness ==
    /\ simPc = "thrown"
    /\ simOptions.targetCount = Num(550)
    /\ ~simOptions.targetRatio.def
    /\ simOptions.error = Num(0)
    /\ simDocument.triangles > 0

\* C15 (as stated): simplify goes on past its validation only when exactly
\* one of targetRatio and targetCount is specified.
C15_ExactlyOneAccepted ==
    simPc \notin {"idle", "thrown"} =>
        (simOptions.targetRatio.def # simOptions.targetCount.def)

\* C15 (amended): options that specify both are rejected, with InvalidOptions
\* for the field targetRatio/targetCount; options that specify neither are
\* accepted when their error is valid, and the ratio used is 0.5.
C15_BothRejectedNeitherDefaults ==
    /\ (simPc # "idle" /\ simOptions.targetRatio.def /\ simOptions.targetCount.def) =>
          /\ simPc = "thrown"
          /\ simThrown.code = "INVALID_OPTIONS"
          /\ simThrown.field = "targetRatio/targetCount"
    /\ (simPc # "idle" /\ ~simOptions.targetRatio.def /\ ~simOptions.targetCount.def
            /\ ~(simOptions.error.def /\ ErrorInvalid(simOptions))) =>
          /\ simPc # "thrown"
          /\ simDocBefore.triangles > 0 => simRatio = 50

\* C15: simplify was called with neither targetRatio nor targetCount on a
\* document with triangles, and has returned its stats.
C15_Witness ==
    /\ simPc = "returned"
    /\ ~simOptions.targetRatio.def
    /\ ~simOptions.targetCount.def
    /\ simStats.originalTriangles > 0
    /\ simRatio = 50

\* The messages of the errors with which simplify rejects its options.
RejectionMessages ==
    {ErrorMessage(validateSimplifyOptions(o)) : o \in SimplifyOptionInputs}
        \ {ErrorMessage(NoOptionsError)}

\* C16 (as stated): when a step rejected its options, the failure outcome of
\* the pipeline carries, for the failed step, the kind InvalidOptions, the
\* invalid field, the expected range and the received value.
C16_StructuredError ==
    (Returned /\ ~result.success
        /\ result.steps[Len(result.steps)].error \in RejectionMessages) =>
        LET failed == result.steps[Len(result.steps)]
        IN  /\ failed.step = "simplify"
            /\ {"code", "field", "expected", "received"} \subseteq DOMAIN failed
            /\ failed.code = "INVALID_OPTIONS"

\* The options C17 names: a compressionLevel outside [0, 10], or a
\* quantizePosition, quantizeNormal or quantizeTexcoord that is outside
\* [1, 30] or is not an integer.
C17_Named(o) ==
    \/ o.compressionLevel.def
          /\ ~(0 <= o.compressionLevel.x100 /\ o.compressionLevel.x100 <= 1000)
    \/ \E f \in {"quantizePosition", "quantizeNormal", "quantizeTexcoord"} :
          /\ o[f].def
          /\ \/ ~(100 <= o[f].x100 /\ o[f].x100 <= 3000)
             \/ o[f].x100 % 100 # 0

\* C17: called with such options (the values being finite numbers), the
\* Draco step fails with InvalidOptions.
C17_DracoRejects ==
    (C17_Named(dracoOptions) /\ dracoPc # "idle") =>
        /\ dracoPc = "thrown"
        /\ dracoThrown.code = "INVALID_OPTIONS"

\* C17: the Draco step was called on a document with geometry with a
\* quantizeTexcoord of 14.5 and every other option valid, and has thrown.
C17_Witness ==
    /\ dracoPc = "thrown"
    /\ dracoOptions.quantizeTexcoord = Num(1450)
    /\ dracoOptions.compressionLevel = Num(1000)
    /\ dracoOptions.quantizePosition = Num(3000)
    /\ dracoOptions.quantizeNormal = Num(100)
    /\ dracoDocument.geometrySize > 0

\* C20 (as stated): after repairInput has returned, every component of
\* every POSITION, NORMAL and TEXCOORD_n array of every primitive is finite.
C20_AttributesFinite ==
    repairPc = "returned" =>
        \A i \in DOMAIN primitives :
            \A sem \in {"POSITION", "NORMAL", "TEXCOORD_0", "TEXCOORD_1",
                         "TEXCOORD_2"} :
                ~hasNonFinite(primitives[i][sem].arr)

\* The number of components of one primitive that repairInput replaces with 0.
Replaced(prim) ==
    fixNonFiniteCount(prim.POSITION.arr) + fixNonFiniteCount(prim.NORMAL.arr)
      + fixNonFiniteCount(prim.TEXCOORD_0.arr)
      + fixNonFiniteCount(prim.TEXCOORD_1.arr)

\* C21 (as stated): the invalidVerticesFixed that repairInput returns is the
\* number of non-finite components it replaced with 0 in the POSITION,
\* NORMAL, TEXCOORD_0 and TEXCOORD_1 arrays of all primitives.
C21_CountsEveryReplacement ==
    [][RepairInput =>
         repairResult'.invalidVerticesFixed =
             SumTo([i \in DOMAIN primitives |-> Replaced(primitives[i])],
                   Len(primitives))]_vars

\* The compression levels that validateOptions accepts, among those tried.
C23_Levels == {l \in CompressionLevelInputs : l.def /\ ~CompressionLevelInvalid(l)}

\* C23: when the Draco step has reported a compressedSize for a document at
\* one level, the compressedSize it reports for the same document and
\* otherwise identical options at a higher level is no larger, and at a
\* lower level no smaller.
C23_LevelMonotone ==
    (dracoPc = "returned" /\ dracoStats.meshesCompressed > 0
       /\ dracoOptions.compressionLevel \in C23_Levels) =>
        \A l \in C23_Levels :
            LET other == DracoStatsOf(dracoDocument,
                             [dracoOptions EXCEPT !.compressionLevel = l])
            IN  /\ dracoOptions.compressionLevel.x100 < l.x100 =>
                      other.compressedSize <= dracoStats.compressedSize
                /\ l.x100 < dracoOptions.compressionLevel.x100 =>
                      dracoStats.compressedSize <= other.compressedSize

C23_Witness ==
    /\ dracoPc = "returned"
    /\ dracoStats.compressedSize > 0
    /\ dracoOptions.compressionLevel = Num(0)
    /\ Num(1000) \in C23_Levels

\* C24 (as stated): once the request timeout has fired, no further step of
\* the request's pipeline run starts and no output file is written for it.
C24_NoWorkAfterTimeout ==
    [][timedOut => (started' = started /\ outputFile' = outputFile)]_vars

\* C27 (as stated): when io.read fails on an uploaded .glb that was accepted
\* by the header validation, POST /api/optimize answers with status 400 and
\* error code INVALID_FILE.
C27_UnreadableGlbIs400 ==
    (pc = "Done" /\ fault = "io.read") =>
        errorHandler(thrown) = [status |-> 400, code |-> "INVALID_FILE"]

\* C25 (as stated): a pass of the periodic cleanup deletes every temporary
\* file of a request (uploaded input, converted GLB, optimized result) that
\* is more than one hour old.
C25_CleanupDeletesOldFiles ==
    [][CleanupOldFiles =>
         \A f \in tempFiles :
             clock - f.mtime > MAX_FILE_AGE => f \notin tempFiles']_vars

\* The request presents exactly the key: the Authorization header is
\* `Bearer <key>`, or x-api-key or api_key is the key.
C26_PresentsExactly ==
    \/ authRequest.authorization = <<"Bearer", apiKeyEnv.v>>
    \/ authRequest.xApiKey = Str(apiKeyEnv.v)
    \/ authRequest.apiKeyQuery = Str(apiKeyEnv.v)

\* C26 (as stated): with API_KEY set to a non-empty value, a request to an
\* API route that does not present exactly that key is answered with 401.
C26_ExactKeyOr401 ==
    (authPc # "received" /\ apiKeyEnv.set /\ apiKeyEnv.v # ""
       /\ authRequest.route \in API_ROUTES /\ ~C26_PresentsExactly) =>
        authPc = "401"

\* The request presents the key as authMiddleware reads it: the second
\* space-separated field of an Authorization header whose first field is
\* Bearer, whatever follows; or x-api-key; or api_key.
C26_PresentsKey ==
    \/ /\ Len(authRequest.authorization) >= 2
       /\ authRequest.authorization[1] = "Bearer"
       /\ authRequest.authorization[2] = apiKeyEnv.v
    \/ authRequest.xApiKey = Str(apiKeyEnv.v)
    \/ authRequest.apiKeyQuery = Str(apiKeyEnv.v)

\* C26 (amended): with API_KEY set to a non-empty value, a request to an
\* API route that does not present the key in one of these three ways is
\* answered with 401 and does not reach the route handler; one that does
\* present it reaches the handler.
C26_KeyOr401 ==
    (authPc # "received" /\ apiKeyEnv.set /\ apiKeyEnv.v # ""
       /\ authRequest.route \in API_ROUTES) =>
        /\ ~C26_PresentsKey => authPc = "401"
        /\ C26_PresentsKey => authPc = "handler"

\* C26: a request with another scheme and the right key was turned away.
C26_Witness ==
    /\ authPc = "401"
    /\ apiKeyEnv = [set |-> TRUE, v |-> "k1"]
    /\ authRequest.authorization = <<"Basic", "k1">>
    /\ authRequest.route = "/api/download"

\* C28 (as stated): a run on validateOptions(raw).sanitized has no step
\* fail because of an invalid option value.
C28_SanitizedNeverRejected == sanFailed.code # "INVALID_OPTIONS"

\* C29 (as stated): every option value that is inside the range its
\* component accepts is the same in validateOptions(raw).sanitized.
C29_InRangeUnchanged ==
    sanPc # "idle" =>
        LET rs == rawOptions.simplify
            rd == rawOptions.draco
            rt == rawOptions.texture
            mode == IF rt.mode = "undefined" THEN "ETC1S" ELSE rt.mode
        IN  /\ (rs.targetRatio.def /\ ~TargetRatioInvalid(rs)) =>
                  sanitized.simplify.targetRatio = rs.targetRatio
            /\ (rs.targetCount.def /\ ~TargetCountInvalid(rs)) =>
                  sanitized.simplify.targetCount = rs.targetCount
            /\ (rs.error.def /\ ~ErrorInvalid(rs)) =>
                  sanitized.simplify.error = rs.error
            /\ (rd.compressionLevel.def
                   /\ ~CompressionLevelInvalid(rd.compressionLevel)) =>
                  sanitized.draco.compressionLevel = rd.compressionLevel
            /\ \A i \in DOMAIN quantizationFields :
                  LET key == quantizationFields[i]
                  IN  (rd[key].def /\ ~QuantizationInvalid(rd[key])) =>
                        sanitized.draco[key] = rd[key]
            /\ (rt.quality.def /\ mode \in TEXTURE_MODES
                   /\ IsInteger(rt.quality)
                   /\ rt.quality.x100 >= QualityMin(mode)
                   /\ rt.quality.x100 <= QualityMax(mode)) =>
                  sanitized.texture.quality = rt.quality

\* C30 (as stated): when the creation of the Draco modules has failed, a
\* later call of getDracoModules attempts the initialization again: it
\* calls the factories anew.
C30_RetriesAfterFailure ==
    [][\A c \in Callers :
         (CallGetDracoModules(c) /\ initPromise = "rejected") =>
             /\ decoderCreated' = decoderCreated + 1
             /\ encoderCreated' = encoderCreated + 1
             /\ initPromise' = "pending"]_vars

====
